---- MODULE Spec2Model ----
(***************************************************************************)
(* A model of the firefly-telegram-assistant core:                         *)
(*   - firefly_sync.py: the paginated sync loops that mirror the ledger's  *)
(*     accounts, categories, bills and transactions into SQLite, and the   *)
(*     embedding backfill store_transaction_embeddings;                    *)
(*   - intent_filter.py: determine_intent, from user text and the model's  *)
(*     reply to a transaction proposal, and find_similar_transactions;     *)
(*   - main.py: the chat handlers and post_transaction, from a proposal to *)
(*     the ledger payload.                                                 *)
(* Several state machines share the module: SyncSpec (one sync_* function  *)
(* run repeatedly against a remote, with backfills between the runs),      *)
(* BackfillSpec (a backfill on a store of transactions with all their      *)
(* attributes), IntentSpec (one message resolved step by step, completed   *)
(* by account picks and submitted), ChatSpec (a session of text messages   *)
(* and button presses, each handler in one step), ConcurrentSpec           *)
(* (determine_intent beside a running sync_accounts) and SimilarSpec (one  *)
(* similarity query).  Each specification parks the variables of the       *)
(* machines it does not run.                                               *)
(***************************************************************************)
EXTENDS Integers, Sequences, FiniteSets, TLC

VARIABLES
    \* ---- firefly_sync.py ----
    kind,          \* which sync_* function this behaviour runs
    remote,        \* the ledger's pages for that entity: page p is remote[p]
    db,            \* the committed content of firefly_local.db
    conn,          \* what the open connection sees: db plus uncommitted writes
    pc,            \* position in the sync loop: idle, request, items, commit
    page,          \* the loop's page cursor
    page_data,     \* data["data"] of the page being processed
    idx,           \* index of the next item of page_data
    requests,      \* history: the page numbers requested in this run, in order
    answers,       \* history: what each request returned: page, empty, failed
    runs,          \* number of runs started
    lastEnd,       \* how the last run ended: none, empty, failed, crashed; or
                   \* backfilled, once store_transaction_embeddings has run
    committed,     \* history: pages committed in this run
    startDb,       \* history: db when this run started
    prevCommitted, \* history: pages committed in the previous run
    prevCount,     \* history: row count of the table when the previous run ended
    sameRemote,    \* history: the remote is the one the previous run started with
    remoteChanged, \* history: the remote changed since the last run started
    \* ---- intent_filter.py, main.py ----
    env,           \* the message, the clock, the store and the model's reply
    ipc,           \* position in determine_intent / post_transaction
    user_tags,     \* extract_tags_from_input's tag list
    main_input,    \* extract_tags_from_input's cleaned text
    modelCalls,    \* number of calls of client.chat.completions.create
    result,        \* what determine_intent returned: the session's proposal
    payload,       \* the transaction post_transaction built
    postResult,    \* what post_transaction returned
    ledgerPosts,   \* number of POSTs sent to the ledger
    known_accounts, \* the accounts section of build_prompt_context's snippet
    response,      \* what the ledger answered to the last POST
    \* ---- main.py: the chat ----
    chat,          \* where the conversation is: resolving, failed, picking, ...
    held,          \* context.user_data holds a proposal
    field_to_pick, \* context.user_data["field_to_pick"]
    offered,       \* the accounts on the picker keyboard
    shown,         \* the last message the bot sent or edited
    okActions,     \* number of 'ok' callbacks handled
    original_input,   \* context.user_data["original_input"]
    awaiting_context, \* context.user_data["awaiting_context"]
    keyboards,     \* the inline keyboards on screen: how many of each kind
    texts,         \* number of text messages handled
    environ,       \* os.environ's AUTHORIZED_USERS: unset, or the ids it lists
    effective_user, \* update.effective_user.id of the latest update, 0 before it
    \* ---- intent_filter.py: find_similar_transactions ----
    query,         \* model.encode(desc): the vector of the text asked about
    top_k,         \* the argument top_k
    similar        \* what find_similar_transactions returned

syncVars ==
    <<kind, remote, db, conn, pc, page, page_data, idx, requests, answers, runs,
      lastEnd, committed, startDb, prevCommitted, prevCount, sameRemote,
      remoteChanged>>

\* The sync variables but the store.
syncVarsButDb ==
    <<kind, remote, conn, pc, page, page_data, idx, requests, answers, runs, lastEnd,
      committed, startDb, prevCommitted, prevCount, sameRemote, remoteChanged>>

chatVars == <<chat, held, field_to_pick, offered, shown, okActions>>

sessionVars == <<original_input, awaiting_context, keyboards, texts>>

authVars == <<environ, effective_user>>

similarVars == <<query, top_k, similar>>

intentVars ==
    <<env, ipc, user_tags, main_input, modelCalls, result, payload, postResult,
      ledgerPosts, known_accounts, response, chatVars, sessionVars, authVars,
      similarVars>>

vars == <<syncVars, intentVars>>

(***************************************************************************)
(* Bounds of the model.                                                    *)
(***************************************************************************)
MaxPages == 2
MaxPageLen == 2
MaxRuns == 2

Ids == {1, 2}
Names == {"n1", "n2"}
Kinds == {"accounts", "categories", "bills", "transactions"}
AccountTypes == {"asset", "reconciliation", "initial-balance"}
TagLists == {<<>>, <<"t1">>, <<"", "t1">>}

(***************************************************************************)
(* Sequence helpers.                                                       *)
(***************************************************************************)
Range(s) == {s[i] : i \in DOMAIN s}

RECURSIVE Flatten(_)
Flatten(ss) == IF ss = <<>> THEN <<>> ELSE Head(ss) \o Flatten(Tail(ss))

SeqsUpTo(S, n) == UNION {[1..m -> S] : m \in 0..n}

DistinctIds(s) == \A i, j \in DOMAIN s : s[i].id = s[j].id => i = j

(***************************************************************************)
(* The remote ledger: for each entity, a list of pages of items.  An item  *)
(* carries the attributes the loops read.  Every remote entity is listed   *)
(* once; a page may be empty; the list does not end with an empty page     *)
(* (past its end every page is empty).                                     *)
(***************************************************************************)
RemoteItems ==
    [accounts |-> [id : Ids, name : {"n1"}, type : AccountTypes, tags : {<<>>}],
     categories |-> [id : Ids, name : Names, type : {""}, tags : {<<>>}],
     bills |-> [id : Ids, name : Names, type : {""}, tags : {<<>>}],
     transactions |-> [id : Ids, name : {"n1"}, type : {"withdrawal"}, tags : TagLists]]

RemotePages ==
    [k \in Kinds |-> {p \in SeqsUpTo(RemoteItems[k], MaxPageLen) : DistinctIds(p)}]

Remotes ==
    [k \in Kinds |->
        {r \in SeqsUpTo(RemotePages[k], MaxPages) :
            /\ DistinctIds(Flatten(r))
            /\ r # <<>> => r[Len(r)] # <<>>}]

(***************************************************************************)
(* The store (init_db): four tables keyed by INTEGER PRIMARY KEY id, kept  *)
(* here as sequences in id order so that a duplicate row would show, the   *)
(* append-only transactions_tags and transaction_embeddings.               *)
(***************************************************************************)
EmptyDb ==
    [accounts |-> <<>>, categories |-> <<>>, bills |-> <<>>, transactions |-> <<>>,
     transactions_tags |-> <<>>, transaction_embeddings |-> {}]

\* INSERT INTO t: the row is added, whatever rows exist (a table without the key).
InsertPlain(tbl, row) ==
    LET Lo(r) == r.id <= row.id
        Hi(r) == r.id > row.id
    IN  SelectSeq(tbl, Lo) \o <<row>> \o SelectSeq(tbl, Hi)

\* The table emptied before the row is written.
InsertAlone(tbl, row) == <<row>>

\* INSERT OR REPLACE INTO t: the row with the same primary key is deleted first.
InsertOrReplace(tbl, row) ==
    LET Lo(r) == r.id < row.id
        Hi(r) == r.id > row.id
    IN  SelectSeq(tbl, Lo) \o <<row>> \o SelectSeq(tbl, Hi)

\* trans.get(k, default): an attribute the item may not carry.
Attr(item, k, default) == IF k \in DOMAIN item THEN item[k] ELSE default

\* The column values a loop binds for one item.
RowOf(k, item) ==
    CASE k = "accounts" -> [id |-> item.id, name |-> item.name, type |-> item.type]
      [] k = "transactions" ->
            [id |-> item.id, description |-> item.name,
             amount |-> Attr(item, "amount", 0),
             source_name |-> Attr(item, "source_name", ""),
             destination_name |-> Attr(item, "destination_name", ""),
             category_name |-> Attr(item, "category_name", "")]
      [] OTHER -> [id |-> item.id, name |-> item.name]

\* sync_accounts' filter: these account types are not mirrored.
Skipped(k, item) ==
    k = "accounts" /\ item.type \in {"reconciliation", "initial-balance"}

\* The filter left out: every account is written.
SkippedNever(k, item) == FALSE

\* The loop over tags without its "if tag": a row for every entry.
TagRowsWithEmpty(item) ==
    [i \in DOMAIN item.tags |-> [transaction_id |-> item.id, name |-> item.tags[i]]]

\* The rows sync_transactions inserts for an item's tags: one per non-empty tag.
TagRows(item) ==
    LET NonEmpty(t) == t # ""
        kept == SelectSeq(item.tags, NonEmpty)
    IN  [i \in DOMAIN kept |-> [transaction_id |-> item.id, name |-> kept[i]]]

\* The iteration without its INSERT OR REPLACE INTO transactions: the tag
\* rows alone are written.
ApplyItemTagsOnly(k, store, item) ==
    IF Skipped(k, item) THEN store
    ELSE IF k = "transactions"
    THEN [store EXCEPT !.transactions_tags = @ \o TagRows(item)]
    ELSE [store EXCEPT ![k] = InsertOrReplace(@, RowOf(k, item))]

\* One iteration of the for loop over page_data, on the connection's view.
ApplyItem(k, store, item) ==
    IF Skipped(k, item) THEN store
    ELSE LET upserted == [store EXCEPT ![k] = InsertOrReplace(@, RowOf(k, item))]
         IN  IF k = "transactions"
             THEN [upserted EXCEPT !.transactions_tags = @ \o TagRows(item)]
             ELSE upserted

RECURSIVE ApplyItems(_, _, _)
ApplyItems(k, store, items) ==
    IF items = <<>> THEN store
    ELSE ApplyItems(k, ApplyItem(k, store, Head(items)), Tail(items))

(***************************************************************************)
(* store_transaction_embeddings.  A text is a sequence of tokens; a part   *)
(* of it is a sequence of tokens too.                                      *)
(***************************************************************************)
\* sep.join(parts)
RECURSIVE Join(_, _)
Join(parts, sep) ==
    IF parts = <<>> THEN <<>>
    ELSE IF Len(parts) = 1 THEN Head(parts)
    ELSE Head(parts) \o <<sep>> \o Join(Tail(parts), sep)

\* The orders in which the elements of a list can come.
Perms(l) ==
    {[i \in DOMAIN l |-> l[p[i]]] : p \in {q \in [DOMAIN l -> DOMAIN l] : Range(q) = DOMAIN l}}

\* The names of the transactions_tags rows of a transaction, in row order.
TagNames(store, id) ==
    LET Mine(r) == r.transaction_id = id
        mine == SelectSeq(store.transactions_tags, Mine)
    IN  [i \in DOMAIN mine |-> mine[i].name]

\* GROUP_CONCAT(tt.name, ', ') over the LEFT JOIN: NULL (here the empty text)
\* without a tag row, else the names joined in an order SQLite does not fix.
GroupConcat(store, id) ==
    {Join([i \in DOMAIN o |-> <<o[i]>>], ", ") : o \in Perms(TagNames(store, id))}

\* The text with the "amount" part also for an amount of zero.
EmbeddingTextAmountAlways(t, tags) ==
    LET p1 == <<(IF t.description # "" THEN <<t.description>> ELSE <<>>)>>
        p2 == IF t.source_name # ""
              THEN p1 \o <<(<<"source ", t.source_name>>), <<"from ", t.source_name>>>>
              ELSE p1
        p3 == IF t.destination_name # ""
              THEN p2 \o <<(<<"destination ", t.destination_name>>),
                            <<"to ", t.destination_name>>>>
              ELSE p2
        p4 == IF t.category_name # "" THEN Append(p3, <<"category ", t.category_name>>)
              ELSE p3
        p5 == IF tags # <<>> THEN Append(p4, <<"tags ">> \o tags) ELSE p4
        p6 == Append(p5, <<"amount ", t.amount>>)
    IN  Join(p6, " ")

\* embedding_text: parts, appended one by one, then " ".join(parts).
EmbeddingText(t, tags) ==
    LET p1 == <<(IF t.description # "" THEN <<t.description>> ELSE <<>>)>>
        p2 == IF t.source_name # ""
              THEN p1 \o <<(<<"source ", t.source_name>>), <<"from ", t.source_name>>>>
              ELSE p1
        p3 == IF t.destination_name # ""
              THEN p2 \o <<(<<"destination ", t.destination_name>>),
                            <<"to ", t.destination_name>>>>
              ELSE p2
        p4 == IF t.category_name # "" THEN Append(p3, <<"category ", t.category_name>>)
              ELSE p3
        p5 == IF tags # <<>> THEN Append(p4, <<"tags ">> \o tags) ELSE p4
        p6 == IF t.amount # 0 THEN Append(p5, <<"amount ", t.amount>>) ELSE p5
    IN  Join(p6, " ")

\* model.encode(text).tobytes(): a function of the text; the vector is named
\* by the text it encodes.
Encode(text) == [kind |-> "f32", vec |-> text]

HasEmbedding(store, id) == \E e \in store.transaction_embeddings : e.transaction_id = id

\* The SELECT without its WHERE: every transaction.
AllTransactions(store) == Range(store.transactions)

\* The SELECT with an inner JOIN: the transactions that have a tag row.
MissingTaggedTransactions(store) ==
    {t \in Range(store.transactions) :
        ~HasEmbedding(store, t.id) /\ TagNames(store, t.id) # <<>>}

\* WHERE t.id NOT IN (SELECT transaction_id FROM transaction_embeddings)
MissingTransactions(store) ==
    {t \in Range(store.transactions) : ~HasEmbedding(store, t.id)}

\* The embeddings one run can compute for a transaction.
EmbeddingsOf(store, t) ==
    {[transaction_id |-> t.id, embedding |-> Encode(EmbeddingText(t, tags))] :
        tags \in GroupConcat(store, t.id)}

\* INSERT OR REPLACE INTO transaction_embeddings, for each row of rows.
ReplaceEmbeddings(tbl, rows) ==
    {e \in tbl : \A r \in rows : r.transaction_id # e.transaction_id} \cup rows

\* The tables store_transaction_embeddings can leave at its commit.
Backfilled(store) ==
    LET todo == MissingTransactions(store)
        choices == {c \in [todo -> UNION {EmbeddingsOf(store, t) : t \in todo}] :
                      \A t \in todo : c[t] \in EmbeddingsOf(store, t)}
    IN  {[store EXCEPT !.transaction_embeddings =
            ReplaceEmbeddings(@, {c[t] : t \in todo})] : c \in choices}


(***************************************************************************)
(* The sync loops (sync_accounts, sync_categories, sync_bills,             *)
(* sync_transactions).  The four have the same loop; kind selects the      *)
(* endpoint, the table and the per-item statements.                        *)
(***************************************************************************)
Running == pc \in {"request", "items", "commit"}

\* What the ledger holds at page p: past the end of the list, an empty page.
ServedPage(p) == IF p \in DOMAIN remote THEN remote[p] ELSE <<>>

\* The answers one request can get: the page, or a failure (curl's non-zero
\* exit, a body that is not JSON, a body without "data").
AnswerKinds(p) ==
    {"failed"} \cup (IF ServedPage(p) = <<>> THEN {"empty"} ELSE {"page"})

\* The loop retries a failed request instead of leaving.
AfterAnswerRetry(ans) ==
    CASE ans = "page" -> "items"
      [] ans = "failed" -> "request"
      [] OTHER -> "idle"

\* The two break statements of the while loop: where the loop goes after an answer.
AfterAnswer(ans) == IF ans = "page" THEN "items" ELSE "idle"

\* sqlite3.connect, page = 1.
StartRun ==
    /\ pc = "idle"
    /\ runs < MaxRuns
    /\ pc' = "request"
    /\ page' = 1
    /\ conn' = db
    /\ page_data' = <<>>
    /\ idx' = 1
    /\ requests' = <<>>
    /\ answers' = <<>>
    /\ runs' = runs + 1
    /\ lastEnd' = "none"
    /\ committed' = 0
    /\ startDb' = db
    /\ prevCommitted' = committed
    /\ prevCount' = Len(db[kind])
    /\ sameRemote' = (runs >= 1 /\ ~remoteChanged)
    /\ remoteChanged' = FALSE
    /\ UNCHANGED <<kind, remote, db>>
    /\ UNCHANGED intentVars

\* call_firefly_api_curl(endpoint) for the page cursor, and the two tests
\* that leave the loop.
Request ==
    /\ pc = "request"
    /\ \E ans \in AnswerKinds(page) :
        /\ requests' = Append(requests, page)
        /\ answers' = Append(answers, ans)
        /\ pc' = AfterAnswer(ans)
        /\ page_data' = IF ans = "page" THEN ServedPage(page) ELSE <<>>
        /\ lastEnd' = IF AfterAnswer(ans) = "idle" THEN ans ELSE lastEnd
    /\ idx' = 1
    /\ UNCHANGED <<kind, remote, db, conn, page, runs, committed, startDb,
                   prevCommitted, prevCount, sameRemote, remoteChanged>>
    /\ UNCHANGED intentVars

\* One iteration of "for item in page_data", all writes on the connection.
ProcessItemCommitting(autocommit) ==
    /\ pc = "items"
    /\ idx \in DOMAIN page_data
    /\ conn' = ApplyItem(kind, conn, page_data[idx])
    /\ db' = IF autocommit THEN conn' ELSE db
    /\ idx' = idx + 1
    /\ pc' = IF idx = Len(page_data) THEN "commit" ELSE "items"
    /\ UNCHANGED <<kind, remote, page, page_data, requests, answers, runs, lastEnd,
                   committed, startDb, prevCommitted, prevCount, sameRemote,
                   remoteChanged>>
    /\ UNCHANGED intentVars

\* A connection in autocommit mode: each statement is durable at once.
ProcessItemAutocommit == ProcessItemCommitting(TRUE)

ProcessItem == ProcessItemCommitting(FALSE)

\* conn.commit(); page += 1.
Commit ==
    /\ pc = "commit"
    /\ db' = conn
    /\ committed' = committed + 1
    /\ page' = page + 1
    /\ pc' = "request"
    /\ UNCHANGED <<kind, remote, conn, page_data, idx, requests, answers, runs,
                   lastEnd, startDb, prevCommitted, prevCount, sameRemote,
                   remoteChanged>>
    /\ UNCHANGED intentVars

\* The run is interrupted: an exception leaves the function (int(item["id"]),
\* float(...), attrs["transactions"][0] on a malformed item) or the process
\* ends.  The connection goes without a commit: SQLite rolls its writes back.
Interrupt ==
    /\ Running
    /\ conn' = db
    /\ pc' = "idle"
    /\ lastEnd' = "crashed"
    /\ UNCHANGED <<kind, remote, db, page, page_data, idx, requests, answers, runs,
                   committed, startDb, prevCommitted, prevCount, sameRemote,
                   remoteChanged>>
    /\ UNCHANGED intentVars

\* Between two runs, one entity is edited on the ledger.
RemoteEdit ==
    /\ pc = "idle"
    /\ runs >= 1
    /\ runs < MaxRuns
    /\ ~remoteChanged
    /\ \E p \in DOMAIN remote :
        \E i \in DOMAIN remote[p] :
            \E item \in RemoteItems[kind] :
                /\ item.id = remote[p][i].id
                /\ item # remote[p][i]
                /\ remote' = [remote EXCEPT ![p][i] = item]
    /\ remoteChanged' = TRUE
    /\ UNCHANGED <<kind, db, conn, pc, page, page_data, idx, requests, answers,
                   runs, lastEnd, committed, startDb, prevCommitted, prevCount,
                   sameRemote>>
    /\ UNCHANGED intentVars

\* Between two runs an entity is deleted on the ledger: its item is gone from
\* its page, and so are the empty pages this leaves at the end.
RemoteDelete ==
    /\ pc = "idle"
    /\ runs >= 1
    /\ runs < MaxRuns
    /\ ~remoteChanged
    /\ \E p \in DOMAIN remote :
        \E i \in DOMAIN remote[p] :
            LET without ==
                    [remote EXCEPT ![p] = SubSeq(@, 1, i - 1) \o SubSeq(@, i + 1, Len(@))]
                filled == {q \in DOMAIN without : without[q] # <<>>}
                last == IF filled = {} THEN 0
                        ELSE CHOOSE q \in filled : \A q2 \in filled : q2 <= q
            IN  remote' = SubSeq(without, 1, last)
    /\ remoteChanged' = TRUE
    /\ UNCHANGED <<kind, db, conn, pc, page, page_data, idx, requests, answers,
                   runs, lastEnd, committed, startDb, prevCommitted, prevCount,
                   sameRemote>>
    /\ UNCHANGED intentVars

\* store_transaction_embeddings(): one transaction, committed at its end; in
\* main() it runs when sync_transactions has returned.
Backfill ==
    /\ pc = "idle"
    /\ db' \in Backfilled(db)
    /\ conn' = db'
    /\ lastEnd' = "backfilled"
    /\ UNCHANGED <<kind, remote, pc, page, page_data, idx, requests, answers, runs,
                   committed, startDb, prevCommitted, prevCount, sameRemote,
                   remoteChanged>>
    /\ UNCHANGED intentVars

SyncStep == Request \/ ProcessItem \/ Commit

IntentParked ==
    /\ env = <<>>
    /\ ipc = "off"
    /\ user_tags = <<>>
    /\ main_input = <<>>
    /\ modelCalls = 0
    /\ result = <<>>
    /\ payload = <<>>
    /\ postResult = <<>>
    /\ ledgerPosts = 0
    /\ known_accounts = {}
    /\ response = "unsent"
    /\ chat = "off"
    /\ held = FALSE
    /\ field_to_pick = "None"
    /\ offered = {}
    /\ shown = "nothing"
    /\ okActions = 0
    /\ original_input = <<>>
    /\ awaiting_context = FALSE
    /\ keyboards = [kb \in {"menu", "updated", "picker"} |-> 0]
    /\ texts = 0
    /\ environ = [set |-> FALSE, ids |-> <<>>]
    /\ effective_user = 0

SimilarParked ==
    /\ query = <<>>
    /\ top_k = 0
    /\ similar = <<>>

SyncInit ==
    /\ kind \in Kinds
    /\ remote \in Remotes[kind]
    /\ db = EmptyDb
    /\ conn = EmptyDb
    /\ pc = "idle"
    /\ page = 1
    /\ page_data = <<>>
    /\ idx = 1
    /\ requests = <<>>
    /\ answers = <<>>
    /\ runs = 0
    /\ lastEnd = "none"
    /\ committed = 0
    /\ startDb = EmptyDb
    /\ prevCommitted = 0
    /\ prevCount = 0
    /\ sameRemote = FALSE
    /\ remoteChanged = FALSE
    /\ IntentParked
    /\ SimilarParked

SyncNext ==
    \/ StartRun
    \/ Request
    \/ ProcessItem
    \/ Commit
    \/ Interrupt
    \/ RemoteEdit
    \/ RemoteDelete
    \/ Backfill

SyncSpec == SyncInit /\ [][SyncNext]_vars

\* The interpreter runs the loop's next statement: a run that is not
\* interrupted keeps going.
FairSyncSpec == SyncSpec /\ WF_vars(SyncStep)

(***************************************************************************)
(* store_transaction_embeddings on the stores a sync of transactions with  *)
(* all their attributes leaves.                                            *)
(***************************************************************************)
RichTransactions ==
    [id : {1}, name : {"", "lunch"}, type : {"withdrawal"},
     tags : {<<>>, <<"t1">>, <<"t1", "t2">>}, amount : {0, 5},
     source_name : {"", "Wallet"}, destination_name : {"", "Shop"},
     category_name : {"", "food"}]

PlainTransactions == {t \in RemoteItems["transactions"] : t.id = 2}

BackfillStores ==
    {ApplyItems("transactions", EmptyDb, items) :
        items \in {<<r>> : r \in RichTransactions}
                  \cup {<<r, q>> : r \in RichTransactions, q \in PlainTransactions}}

BackfillInit ==
    /\ kind = "transactions"
    /\ remote = <<>>
    /\ db \in BackfillStores
    /\ conn = db
    /\ pc = "idle"
    /\ page = 1
    /\ page_data = <<>>
    /\ idx = 1
    /\ requests = <<>>
    /\ answers = <<>>
    /\ runs = 0
    /\ lastEnd = "none"
    /\ committed = 0
    /\ startDb = db
    /\ prevCommitted = 0
    /\ prevCount = 0
    /\ sameRemote = FALSE
    /\ remoteChanged = FALSE
    /\ IntentParked
    /\ SimilarParked

BackfillSpec == BackfillInit /\ [][Backfill]_vars


(***************************************************************************)
(* Properties of the sync loops.                                           *)
(***************************************************************************)
UniqueIds(tbl) == \A i, j \in DOMAIN tbl : tbl[i].id = tbl[j].id => i = j

\* C1: no table ever holds two rows with one remote id, committed or not; and
\* a run against the remote the previous run saw, which commits no page the
\* previous run did not commit, leaves the table's row count as the previous
\* run left it.
C1_SyncIdempotent ==
    /\ \A k \in Kinds : UniqueIds(db[k]) /\ UniqueIds(conn[k])
    /\ (runs >= 2 /\ sameRemote /\ committed <= prevCommitted)
          => Len(db[kind]) = prevCount

C1_Witness ==
    /\ runs = 2
    /\ pc = "idle"
    /\ lastEnd = "empty"
    /\ sameRemote
    /\ committed = 2
    /\ prevCommitted = 2
    /\ Len(db[kind]) = 2

\* The tables the sync loops write: all but transaction_embeddings.
Mirrored(store) == [store EXCEPT !.transaction_embeddings = {}]

\* C2: the mirrored tables hold exactly the items of the pages committed in
\* this run, applied in order to what they held when the run started: nothing
\* of the page in progress; and when page p + 1 is requested (or in progress)
\* pages 1..p are committed and the connection holds nothing uncommitted at
\* the request.
C2_PageCommittedBeforeNext ==
    (runs >= 1 /\ ~remoteChanged) =>
        /\ committed <= Len(remote)
        /\ Mirrored(db) =
             Mirrored(ApplyItems(kind, startDb, Flatten(SubSeq(remote, 1, committed))))
        /\ Running => committed = page - 1
        /\ pc = "request" => conn = db

\* A run interrupted on page 2, after the page's item was written and before
\* its commit: page 1 is in the store, the item of page 2 is not.
C2_Witness ==
    /\ pc = "idle"
    /\ lastEnd = "crashed"
    /\ committed = 1
    /\ page = 2
    /\ Len(page_data) = 1
    /\ idx = 2
    /\ db # startDb
    /\ ApplyItem(kind, db, page_data[1]) # db
    /\ conn = db

C3_Requests ==
    /\ requests = [i \in 1..Len(requests) |-> i]
    /\ \A i \in DOMAIN answers : i < Len(answers) => answers[i] = "page"
    /\ (answers # <<>> /\ answers[Len(answers)] # "page") => pc = "idle"
    /\ Len(requests) = Len(answers)

\* C14: a run of store_transaction_embeddings keeps every embedding row as it
\* is, adds rows only for transactions that had none, writes no other table,
\* and changes nothing when no sync ran since the last backfill.
C14_BackfillOnlyMissing ==
    [][Backfill =>
        /\ db.transaction_embeddings \subseteq db'.transaction_embeddings
        /\ \A e \in db'.transaction_embeddings \ db.transaction_embeddings :
              /\ ~HasEmbedding(db, e.transaction_id)
              /\ \E t \in Range(db.transactions) : t.id = e.transaction_id
        /\ Mirrored(db') = Mirrored(db)
        /\ lastEnd = "backfilled" => db' = db]_vars

\* After a backfill, a second sync and a second backfill, an embedding of the
\* first backfill is still there although the text would now differ.
C14_Witness ==
    /\ lastEnd = "backfilled"
    /\ runs = 2
    /\ \E e \in db.transaction_embeddings :
          \E t \in Range(db.transactions) :
              t.id = e.transaction_id /\ e \notin EmbeddingsOf(db, t)

\* C15: when store_transaction_embeddings has run and no sync has started
\* since, every transactions row has exactly one embedding row, also when the
\* sync before it stopped early.
C15_EveryTransactionEmbedded ==
    lastEnd = "backfilled" =>
        \A t \in Range(db.transactions) :
            Cardinality({e \in db.transaction_embeddings : e.transaction_id = t.id}) = 1

\* A backfill after a sync that committed page 1 and failed on page 2.
C15_Witness ==
    /\ lastEnd = "backfilled"
    /\ kind = "transactions"
    /\ answers = <<"page", "failed">>
    /\ Len(remote) = 2
    /\ Len(db.transactions) = 1
    /\ Cardinality(db.transaction_embeddings) = 1

\* The phrases of the embedding text, each with whether it is present.
Phrases(t, names) ==
    <<[on |-> TRUE, words |-> IF t.description = "" THEN <<>> ELSE <<t.description>>],
      [on |-> t.source_name # "", words |-> <<"source ", t.source_name>>],
      [on |-> t.source_name # "", words |-> <<"from ", t.source_name>>],
      [on |-> t.destination_name # "", words |-> <<"destination ", t.destination_name>>],
      [on |-> t.destination_name # "", words |-> <<"to ", t.destination_name>>],
      [on |-> t.category_name # "", words |-> <<"category ", t.category_name>>],
      [on |-> names # <<>>,
       words |-> <<"tags ">> \o Join([i \in DOMAIN names |-> <<names[i]>>], ", ")],
      [on |-> t.amount # 0, words |-> <<"amount ", t.amount>>]>>

RenderedText(t, names) ==
    LET On(ph) == ph.on
        kept == SelectSeq(Phrases(t, names), On)
    IN  Join([i \in DOMAIN kept |-> kept[i].words], " ")

\* C18: the text embedded for a transaction is its present phrases, in the
\* order description, source, from, destination, to, category, tags, amount,
\* joined by single spaces, the tags joined by ", " in some order.
C18_EmbeddingText ==
    lastEnd = "backfilled" =>
        \A t \in Range(db.transactions) :
            \A e \in db.transaction_embeddings :
                e.transaction_id = t.id =>
                    \E names \in Perms(TagNames(db, t.id)) :
                        e.embedding = Encode(RenderedText(t, names))

\* A transaction with every part but the amount, and one with no description.
C18_Witness ==
    /\ lastEnd = "backfilled"
    /\ \E e \in db.transaction_embeddings :
          e.embedding.vec =
              <<"lunch", " ", "source ", "Wallet", " ", "from ", "Wallet", " ",
                "destination ", "Shop", " ", "to ", "Shop", " ", "category ", "food",
                " ", "tags ", "t2", ", ", "t1">>
    /\ \E e \in db.transaction_embeddings :
          e.embedding.vec = <<"n1", " ", "tags ", "t1">>

\* C3: the pages requested in a run are 1, 2, 3, ... in order, each once; only
\* the last request of a run can have met an empty or failed page, and the run
\* is over once it has; and every run ends.
C3_PagesInOrderAndTerminates == [](C3_Requests) /\ (Running ~> pc = "idle")

\* Two non-empty pages, then the empty page that ends the run.
C3_Witness ==
    /\ pc = "idle"
    /\ requests = <<1, 2, 3>>
    /\ answers = <<"page", "page", "empty">>

\* C4: after a sync_accounts run that read the remote to its end, no row of
\* accounts has the id of an account the remote reports as reconciliation or
\* initial-balance.
C4_ExcludedNeverMirrored ==
    (kind = "accounts" /\ pc = "idle" /\ lastEnd = "empty" /\ ~remoteChanged) =>
        \A i \in DOMAIN db.accounts :
            \A item \in Range(Flatten(remote)) :
                item.id = db.accounts[i].id
                    => item.type \notin {"reconciliation", "initial-balance"}


(***************************************************************************)
(* Values.  A JSON or Python value is a record [t, v]: t is its type and v *)
(* its content.  Absent stands for a key the object does not have.         *)
(* Text the user typed (and a tag) is a sequence of characters; "tags:" is *)
(* one character of the alphabet, the marker.                              *)
(***************************************************************************)
Absent == [t |-> "absent", v |-> ""]
Null == [t |-> "null", v |-> ""]
Str(s) == [t |-> "str", v |-> s]
Num(n) == [t |-> "num", v |-> n]
List(l) == [t |-> "list", v |-> l]
Text(cs) == [t |-> "text", v |-> cs]

MARK == "tags:"
Chars == {"a", "B", " ", ",", MARK}

MaxInputLen == 3

\* str.lower() on one character.
LowerChar(c) == IF c = "B" THEN "b" ELSE c

lower(cs) == [i \in DOMAIN cs |-> LowerChar(cs[i])]

\* str.strip(): leading and trailing whitespace removed.
RECURSIVE lstrip(_)
lstrip(cs) == IF cs # <<>> /\ Head(cs) = " " THEN lstrip(Tail(cs)) ELSE cs

RECURSIVE rstrip(_)
rstrip(cs) ==
    IF cs # <<>> /\ cs[Len(cs)] = " " THEN rstrip(SubSeq(cs, 1, Len(cs) - 1)) ELSE cs

strip(cs) == rstrip(lstrip(cs))

\* The first position of c in cs, 0 when it has none.
find(cs, c) ==
    IF \E i \in DOMAIN cs : cs[i] = c
    THEN CHOOSE i \in DOMAIN cs : cs[i] = c /\ \A j \in 1..(i - 1) : cs[j] # c
    ELSE 0

\* str.split(c): the pieces between the occurrences of c.
RECURSIVE split(_, _)
split(cs, c) ==
    LET i == find(cs, c)
    IN  IF i = 0 THEN <<cs>>
        ELSE <<SubSeq(cs, 1, i - 1)>> \o split(SubSeq(cs, i + 1, Len(cs)), c)

\* The tag list kept as typed: not lower-cased.
TagsOfKeepingCase(tags_part) ==
    LET pieces == split(tags_part, ",")
        NonBlank(piece) == strip(piece) # <<>>
        kept == SelectSeq(pieces, NonBlank)
    IN  [i \in DOMAIN kept |-> strip(kept[i])]

\* [tag.strip().lower() for tag in tags_part.split(",") if tag.strip()]
TagsOf(tags_part) ==
    LET pieces == split(tags_part, ",")
        NonBlank(piece) == strip(piece) # <<>>
        kept == SelectSeq(pieces, NonBlank)
    IN  [i \in DOMAIN kept |-> lower(strip(kept[i]))]

extract_tags_from_input(user_input) ==
    IF find(user_input, MARK) # 0
    THEN LET parts == split(user_input, MARK)
         IN  [main_input |-> strip(parts[1]), tags |-> TagsOf(strip(parts[2]))]
    ELSE [main_input |-> user_input, tags |-> <<>>]

\* str(x) for the values the model's reply carries.
PyStr(x) ==
    CASE x.t = "str" -> x.v
      [] x.t = "num" -> (CASE x.v = 1 -> "1" [] x.v = 2 -> "2" [] x.v = 5 -> "5"
                           [] x.v = 9 -> "9" [] OTHER -> "0")
      [] x.t = "null" -> "None"
      [] OTHER -> "[...]"

\* str.lower() on the words the model's reply carries.
LowerWord(w) ==
    CASE w = "Unknown" -> "unknown" [] w = "None" -> "none" [] OTHER -> w

\* int(x): [ok, n]; not ok is the ValueError or TypeError int raises.
PyInt(x) ==
    CASE x.t = "num" -> [ok |-> TRUE, n |-> x.v]
      [] x.t = "str" /\ x.v \in {"1", "2", "5", "9"} ->
            [ok |-> TRUE,
             n |-> (CASE x.v = "1" -> 1 [] x.v = "2" -> 2 [] x.v = "5" -> 5 [] OTHER -> 9)]
      [] OTHER -> [ok |-> FALSE, n |-> 0]


(***************************************************************************)
(* The environment of one resolution: the message, the date, the store and *)
(* the extraction model's reply.  The reply is an API error, a text that   *)
(* is not JSON, a JSON value that is not an object, or an object.          *)
(***************************************************************************)
DocumentedKeys ==
    {"type", "amount", "description", "source_id", "destination_id", "currency_code",
     "date", "category_name", "tags", "missing_info", "bill_id"}

ReplyKeys == DocumentedKeys \cup {"notes"}

ProposalKeys ==
    {"type", "amount", "description", "source_id", "destination_id", "source_name",
     "destination_name", "currency_code", "date", "category_name", "tags", "bill_name",
     "bill_id", "missing_info"}

Days == {"2025-03-01", "2025-03-02"}

TagA == <<"a">>
TagC == <<"c">>

\* The values a reply may give each key (Absent: the key is left out).
KeyValues ==
    [k \in ReplyKeys |->
        CASE k = "type" -> {Absent, Str("withdrawal"), Str("deposit"), Str("transfer")}
          [] k = "amount" -> {Absent, Str("5"), Num(5)}
          [] k = "description" -> {Absent, Str("lunch")}
          [] k \in {"source_id", "destination_id"} ->
                {Absent, Null, Str("unknown"), Str("Unknown"), Num(1), Num(2), Str("1")}
          [] k = "currency_code" -> {Absent, Str("JPY")}
          [] k = "date" -> {Absent, Str("2023-10-05")}
          [] k = "category_name" -> {Absent, Str("food")}
          [] k = "tags" ->
                {Absent, Null, List(<<>>), List(<<TagA>>), List(<<TagC>>),
                 List(<<TagA, TagC>>), List(<<TagC, TagC>>)}
          [] k = "missing_info" ->
                {Absent, Str("source_id"), List(<<>>), List(<<"source_id">>),
                 List(<<"destination_id">>), List(<<"source_id", "destination_id">>)}
          [] k = "bill_id" -> {Absent, Str("unknown"), Num(1), Num(9), Str("1")}
          [] OTHER -> {Absent, Str("Created by Firefly Assistant")}]

\* A reply as the prompt asks for it: a withdrawal from account 1.
NominalObject ==
    [k \in ReplyKeys |->
        CASE k = "type" -> Str("withdrawal")
          [] k = "amount" -> Str("5")
          [] k = "description" -> Str("lunch")
          [] k = "source_id" -> Num(1)
          [] k = "destination_id" -> Str("unknown")
          [] k = "currency_code" -> Str("JPY")
          [] k = "date" -> Str("2023-10-05")
          [] k = "category_name" -> Str("food")
          [] k = "tags" -> List(<<>>)
          [] k = "missing_info" -> List(<<>>)
          [] k = "bill_id" -> Str("unknown")
          [] OTHER -> Absent]

ReplyKinds == {"error", "text", "json_other", "object"}

NominalStore ==
    [EmptyDb EXCEPT
        !.accounts = <<[id |-> 1, name |-> "Wallet", type |-> "asset"],
                       [id |-> 2, name |-> "Shop", type |-> "expense"]>>,
        !.bills = <<[id |-> 1, name |-> "Rent"]>>]

Stores ==
    {NominalStore, EmptyDb,
     [NominalStore EXCEPT !.accounts = <<[id |-> 1, name |-> "Shop", type |-> "expense"]>>]}

Messages == SeqsUpTo(Chars, MaxInputLen)

NominalEnv ==
    [message |-> <<"a">>, today |-> "2025-03-01", store |-> NominalStore,
     reply |-> "object", object |-> NominalObject]

\* The environments that differ from e in at most one coordinate: the message,
\* the date, the store, the kind of reply, or one key of the reply object.
Vary(e) ==
    {e}
    \cup {[e EXCEPT !.message = m] : m \in Messages}
    \cup {[e EXCEPT !.today = d] : d \in Days}
    \cup {[e EXCEPT !.store = st] : st \in Stores}
    \cup {[e EXCEPT !.reply = r] : r \in ReplyKinds}
    \cup UNION {{[e EXCEPT !.object[k] = x] : x \in KeyValues[k]} : k \in ReplyKeys}

\* The environments explored: at most two coordinates away from the nominal one.
NearNominal(e) == \E e1 \in Vary(NominalEnv) : e \in Vary(e1)


(***************************************************************************)
(* context_loader.py: the lookups determine_intent makes in the store.     *)
(***************************************************************************)
\* dict.get(key, default) on the reply object.
get(object, k, default) == IF object[k] = Absent THEN default ELSE object[k]

\* load_accounts: str(id) -> name, for the accounts of type asset.
load_accounts(store) ==
    {[key |-> Str(PyStr(Num(r.id))), name |-> r.name] :
        r \in {a \in Range(store.accounts) : a.type = "asset"}}

\* load_bills: id -> {"name": name}, the id as SQLite returns it, an integer.
load_bills(store) == {[key |-> Num(r.id), name |-> r.name] : r \in Range(store.bills)}

\* map.get(key, ""): the name under key, the empty string without it.
NameIn(map, key) ==
    IF \E e \in map : e.key = key THEN (CHOOSE e \in map : e.key = key).name ELSE ""

\* Every account has a line, whatever its type.
AccountLinesOfAllTypes(store) ==
    {[name |-> r.name, id |-> PyStr(Num(r.id))] : r \in Range(store.accounts)}

\* The lines of build_prompt_context's "## KNOWN ACCOUNTS:" section: one
\* '"name" -> id' per entry of load_accounts() (their order is left out).
AccountsSection(store) ==
    {[name |-> e.name, id |-> e.key.v] : e \in load_accounts(store)}

\* SELECT DISTINCT: each value once, at its first place.
RECURSIVE Distinct(_)
Distinct(l) ==
    IF l = <<>> THEN <<>>
    ELSE LET x == l[Len(l)]
             front == Distinct(SubSeq(l, 1, Len(l) - 1))
         IN  IF x \in Range(front) THEN front ELSE Append(front, x)

\* load_tags: the distinct names of transactions_tags that are not empty
\* (their order, by name, is left out).
load_tags(store) ==
    LET NonEmpty(n) == n # ""
        names == [i \in DOMAIN store.transactions_tags |-> store.transactions_tags[i].name]
    IN  SelectSeq(Distinct(names), NonEmpty)

\* The exemplar's common_tags: [t[0] for t in tag_rows], the names of the rows
\* SELECT name FROM transactions_tags WHERE transaction_id = ? returns.
common_tags(store, best_tid) == TagNames(store, best_tid)

(***************************************************************************)
(* intent_filter.py: determine_intent.                                     *)
(***************************************************************************)
Pending == [kind |-> "pending", val |-> <<>>]
NoProposal == [kind |-> "none", val |-> <<>>]

\* A failed call comes back to the call: the model is asked again.
AfterModelCallRetry(reply) == IF reply = "error" THEN "extracted" ELSE "responded"

\* The try/except around client.chat.completions.create: an error returns None.
AfterModelCall(reply) == IF reply = "error" THEN "returned" ELSE "responded"

\* json.loads in its try/except: a text that is not JSON returns None.
AfterParse(reply) == IF reply = "text" THEN "returned" ELSE "parsed"

\* A check of the reply's keys against the documented ones.
KeysAcceptedWhenExact(object) ==
    {k \in ReplyKeys : object[k] # Absent} = DocumentedKeys

\* determine_intent reads the keys it knows with data.get and never looks at
\* the set of keys: every object passes.
KeysAccepted(object) == TRUE

\* The statements from "missing_info = ..." on raise for these replies: a value
\* that is not an object has no .get, and user_tags + tags needs tags a list.
AssembleRaises(reply, object) ==
    \/ reply = "json_other"
    \/ get(object, "tags", List(<<>>)).t # "list"

\* The model's tags replace the user's when it gives any.
CombinedTagsModelFirst(tags, model_tags) ==
    IF model_tags # <<>> THEN Range(model_tags) ELSE Range(tags)

\* set(user_tags + data.get("tags", []))
CombinedTags(tags, model_tags) == Range(tags \o model_tags)

\* list(s): the elements of a set, once each, in an order Python does not fix.
Orders(S) == {o \in [1..Cardinality(S) -> S] : Range(o) = S}

\* The date the reply carries, today's without one.
ProposalDateEchoed(object, today) == get(object, "date", Str(today))

\* datetime.date.today().isoformat(), whatever the reply's date.
ProposalDate(object, today) == Str(today)

\* data.get("missing_info", []) taken as it comes, list or not.
ProposalMissingInfoAsGiven(object) == get(object, "missing_info", List(<<>>))

\* missing_info = data.get("missing_info", []); a value that is no list gives [].
ProposalMissingInfo(object) ==
    LET given == get(object, "missing_info", List(<<>>))
    IN  IF given.t = "list" THEN given ELSE List(<<>>)

\* The result dictionary of determine_intent.
ProposalOf(cleaned, tags_in_order, object, today, store) ==
    LET source_id == Str(LowerWord(PyStr(get(object, "source_id", Str("unknown")))))
        destination_id ==
            Str(LowerWord(PyStr(get(object, "destination_id", Str("unknown")))))
        bill_id == Str(LowerWord(PyStr(get(object, "bill_id", Str("unknown")))))
    IN  [k \in ProposalKeys |->
            CASE k = "type" -> get(object, "type", Str("withdrawal"))
              [] k = "amount" -> Str(PyStr(get(object, "amount", Str("0"))))
              [] k = "description" -> get(object, "description", Text(cleaned))
              [] k = "source_id" -> get(object, "source_id", Str("unknown"))
              [] k = "destination_id" -> get(object, "destination_id", Str("unknown"))
              [] k = "source_name" -> Str(NameIn(load_accounts(store), source_id))
              [] k = "destination_name" ->
                    Str(NameIn(load_accounts(store), destination_id))
              [] k = "currency_code" -> get(object, "currency_code", Str("USD"))
              [] k = "date" -> ProposalDate(object, today)
              [] k = "category_name" -> get(object, "category_name", Str(""))
              [] k = "tags" -> List(tags_in_order)
              [] k = "bill_name" -> Str(NameIn(load_bills(store), bill_id))
              [] k = "bill_id" -> get(object, "bill_id", Str("unknown"))
              [] OTHER -> ProposalMissingInfo(object)]

\* find_similar_transactions that keeps the text it was asked about: the
\* query's embedding is stored under the id 0.
StoreAfterReadsKeepingQuery(store, desc) ==
    [store EXCEPT !.transaction_embeddings =
        ReplaceEmbeddings(@, {[transaction_id |-> 0, embedding |-> Encode(desc)]})]

\* The store when build_prompt_context, find_similar_transactions(desc) and the
\* exemplar's lookup have closed their connections: each ran SELECT statements
\* only and closed without a commit.
StoreAfterReads(store, desc) == store

\* user_input, user_tags = extract_tags_from_input(user_input); the context and
\* the exemplar are read from the store and go into the prompt.
ExtractTags ==
    /\ ipc = "start"
    /\ LET extracted == extract_tags_from_input(env.message)
       IN  /\ main_input' = extracted.main_input
           /\ user_tags' = extracted.tags
    /\ known_accounts' = AccountsSection(db)
    /\ db' = StoreAfterReads(db, main_input')
    /\ ipc' = "extracted"
    /\ UNCHANGED <<env, modelCalls, result, payload, postResult, ledgerPosts, response>>
    /\ UNCHANGED chatVars
    /\ UNCHANGED sessionVars
    /\ UNCHANGED authVars
    /\ UNCHANGED syncVarsButDb
    /\ UNCHANGED similarVars

\* client.chat.completions.create(...), in its try/except.
CallModel ==
    /\ ipc = "extracted"
    /\ modelCalls' = modelCalls + 1
    /\ ipc' = AfterModelCall(env.reply)
    /\ result' = IF AfterModelCall(env.reply) = "returned" THEN NoProposal ELSE result
    /\ UNCHANGED <<env, user_tags, main_input, payload, postResult, ledgerPosts,
                   known_accounts, response>>
    /\ UNCHANGED chatVars
    /\ UNCHANGED sessionVars
    /\ UNCHANGED authVars
    /\ UNCHANGED syncVars
    /\ UNCHANGED similarVars

\* data = json.loads(response_str), in its try/except.
ParseJson ==
    /\ ipc = "responded"
    /\ ipc' = AfterParse(env.reply)
    /\ result' = IF AfterParse(env.reply) = "returned" THEN NoProposal ELSE result
    /\ UNCHANGED <<env, user_tags, main_input, modelCalls, payload, postResult,
                   ledgerPosts, known_accounts, response>>
    /\ UNCHANGED chatVars
    /\ UNCHANGED sessionVars
    /\ UNCHANGED authVars
    /\ UNCHANGED syncVars
    /\ UNCHANGED similarVars

\* "5) Extract & finalize": the proposal is built and returned, or an
\* exception leaves determine_intent.
Assemble ==
    /\ ipc = "parsed"
    /\ ipc' = IF AssembleRaises(env.reply, env.object) THEN "raised" ELSE "returned"
    /\ result' \in
         IF AssembleRaises(env.reply, env.object) THEN {result}
         ELSE IF ~KeysAccepted(env.object) THEN {NoProposal}
         ELSE {[kind |-> "proposal",
                val |-> ProposalOf(main_input, o, env.object, env.today, db)] :
                  o \in Orders(CombinedTags(user_tags,
                                            get(env.object, "tags", List(<<>>)).v))}
    /\ UNCHANGED <<env, user_tags, main_input, modelCalls, payload, postResult,
                   ledgerPosts, known_accounts, response>>
    /\ UNCHANGED chatVars
    /\ UNCHANGED sessionVars
    /\ UNCHANGED authVars
    /\ UNCHANGED syncVars
    /\ UNCHANGED similarVars

(***************************************************************************)
(* main.py: post_transaction.                                              *)
(***************************************************************************)
RequiredPayloadKeys ==
    {"type", "date", "amount", "description", "currency_code", "category_name"}

OptionalIdKeys == {"source_id", "destination_id", "bill_id"}

\* proposal.get(k) != "unknown"
Resolved(proposal, k) == proposal[k] # Str("unknown")

\* int(proposal[k]) raises for a resolved id that is no integer.
PayloadRaises(proposal) ==
    \E k \in OptionalIdKeys : Resolved(proposal, k) /\ ~PyInt(proposal[k]).ok

PayloadValue(proposal, k) ==
    CASE k \in OptionalIdKeys ->
            IF PyInt(proposal[k]).ok THEN Num(PyInt(proposal[k]).n) ELSE Null
      [] k = "amount" -> Str(PyStr(proposal[k]))
      [] OTHER -> proposal[k]

\* Every id key is sent, null when it is unresolved.
BuildPayloadWithAllIds(proposal) ==
    [k \in RequiredPayloadKeys \cup OptionalIdKeys \cup {"tags"} |->
        PayloadValue(proposal, k)]

\* The transaction dictionary: the six base keys, each resolved id, the tags
\* when the list is not empty.
BuildPayload(proposal) ==
    [k \in RequiredPayloadKeys
            \cup {i \in OptionalIdKeys : Resolved(proposal, i)}
            \cup (IF proposal["tags"].v # <<>> THEN {"tags"} ELSE {}) |->
        PayloadValue(proposal, k)]

\* What call_firefly_api_curl returns for the POST: None, an empty object, the
\* created transaction, data without transactions, errors, or another object.
LedgerAnswers == {"none", "empty", "data_full", "data_bare", "errors", "other"}

\* The value post_transaction returns for an answer.
PostReturn(ans) ==
    CASE ans \in {"none", "empty"} -> "False"
      [] ans = "errors" -> "errors"
      [] ans = "data_full" -> "message"
      [] OTHER -> "True"

\* call_firefly_api_curl(endpoint, method="POST", data=payload): one request.
Submissions(ans) == 1

\* post_transaction(proposal) on the proposal the session holds.
PostTransaction ==
    /\ result.kind = "proposal"
    /\ IF PayloadRaises(result.val)
       THEN /\ ipc' = "post_raised"
            /\ postResult' = "raised"
            /\ UNCHANGED <<payload, ledgerPosts, response>>
       ELSE \E ans \in LedgerAnswers :
            /\ ipc' = "posted"
            /\ payload' = BuildPayload(result.val)
            /\ ledgerPosts' = ledgerPosts + Submissions(ans)
            /\ response' = ans
            /\ postResult' = PostReturn(ans)
    /\ UNCHANGED <<env, user_tags, main_input, modelCalls, result, known_accounts>>
    /\ UNCHANGED syncVars
    /\ UNCHANGED similarVars

(***************************************************************************)
(* main.py: the handlers of one conversation.                              *)
(***************************************************************************)
MaxOk == 2

\* fetch_accounts(): the (id, name) rows of accounts (their order is left out).
fetch_accounts(store) == {[id |-> r.id, name |-> r.name] : r \in Range(store.accounts)}

\* x in proposal["missing_info"]
Missing(proposal, k) == k \in Range(proposal["missing_info"].v)

\* prompt_for_accounts: the fields the user is asked to pick, in order.
Needed(proposal) ==
    LET type == proposal["type"]
        src == IF Missing(proposal, "source_id") THEN <<"source_id">> ELSE <<>>
        dst == IF Missing(proposal, "destination_id") THEN <<"destination_id">> ELSE <<>>
    IN  (IF type = Str("withdrawal") THEN src ELSE <<>>)
        \o (IF type = Str("deposit") THEN dst
            ELSE IF type = Str("transfer") THEN src \o dst ELSE <<>>)

\* The inline keyboards: the one of present_proposal, the one of
\* present_proposal_after_pick and the account picker of prompt_for_accounts.
KeyboardKinds == {"menu", "updated", "picker"}

NoKeyboards == [kb \in KeyboardKinds |-> 0]

\* The callback data of a keyboard's buttons.
Buttons(kb) ==
    CASE kb = "menu" -> {"ok", "cancel", "add_context"}
      [] kb = "updated" -> {"ok", "regenerate", "cancel", "add_context"}
      [] OTHER -> {"pick_account", "cancel"}

\* The keyboards on screen that have a button for the action.
OnScreen(action) == {kb \in KeyboardKinds : keyboards[kb] > 0 /\ action \in Buttons(kb)}

\* reply_text(msg, reply_markup=...): a message with a keyboard is sent.
Sent(kbs, kb) == IF kb = "none" THEN kbs ELSE [kbs EXCEPT ![kb] = @ + 1]

\* query.edit_message_text(text): the pressed message's keyboard is gone.
Edited(kbs, kb) == [kbs EXCEPT ![kb] = @ - 1]

\* The user whose chat and context.user_data the session is.
Users == {1}

\* What AUTHORIZED_USERS is set to in the environment: nothing, the empty
\* text, the session's user, or another user.
Settings ==
    {[set |-> FALSE, ids |-> <<>>], [set |-> TRUE, ids |-> <<>>],
     [set |-> TRUE, ids |-> <<1>>], [set |-> TRUE, ids |-> <<2>>]}

\* set(map(int, value.split(","))) when the variable is set and not empty,
\* else set().
AUTHORIZED_USERS ==
    IF environ.set /\ environ.ids # <<>>
    THEN {environ.ids[i] : i \in DOMAIN environ.ids}
    ELSE {}

\* No check: every user passes.
is_user_authorizedAnyone(user_id) == TRUE

is_user_authorized(user_id) == user_id \in AUTHORIZED_USERS

\* What a handler's early return leaves: everything as it was.
Ignored ==
    /\ UNCHANGED <<env, ipc, user_tags, main_input, modelCalls, result, payload,
                   postResult, ledgerPosts, known_accounts, response>>
    /\ UNCHANGED chatVars
    /\ UNCHANGED sessionVars
    /\ UNCHANGED syncVars
    /\ UNCHANGED similarVars

\* prompt_for_accounts(update, context, proposal): what it leaves in the chat.
PromptForAccounts(proposal, store) ==
    IF fetch_accounts(store) = {}
    THEN [chat |-> "no_accounts", shown |-> "no_accounts", sent |-> "none",
          field_to_pick |-> field_to_pick, offered |-> offered]
    ELSE IF Needed(proposal) = <<>>
    THEN [chat |-> "menu", shown |-> "proposal", sent |-> "menu",
          field_to_pick |-> field_to_pick, offered |-> offered]
    ELSE [chat |-> "picking", shown |-> "picker", sent |-> "picker",
          field_to_pick |-> Head(Needed(proposal)), offered |-> fetch_accounts(store)]

\* handle_message after determine_intent returned.
Present ==
    /\ chat = "resolving"
    /\ ipc = "returned"
    /\ IF result = NoProposal
       THEN /\ shown' = "couldnt_parse"
            /\ chat' = "failed"
            /\ UNCHANGED <<held, field_to_pick, offered, original_input, keyboards>>
       ELSE /\ held' = TRUE
            /\ original_input' = strip(env.message)
            /\ IF Missing(result.val, "source_id") \/ Missing(result.val, "destination_id")
               THEN LET left == PromptForAccounts(result.val, db)
                    IN  /\ chat' = left.chat
                        /\ shown' = left.shown
                        /\ field_to_pick' = left.field_to_pick
                        /\ offered' = left.offered
                        /\ keyboards' = Sent(keyboards, left.sent)
               ELSE /\ chat' = "menu"
                    /\ shown' = "proposal"
                    /\ keyboards' = Sent(keyboards, "menu")
                    /\ UNCHANGED <<field_to_pick, offered>>
    /\ UNCHANGED <<env, ipc, user_tags, main_input, modelCalls, result, payload,
                   postResult, ledgerPosts, known_accounts, response, okActions,
                   awaiting_context, texts>>
    /\ UNCHANGED authVars
    /\ UNCHANGED syncVars
    /\ UNCHANGED similarVars

\* No removal: the list stays as it is.
RemoveNothing(l, x) == l

\* list.remove(x): the first occurrence goes.
RECURSIVE Remove(_, _)
Remove(l, x) ==
    IF l = <<>> THEN <<>>
    ELSE IF Head(l) = x THEN Tail(l) ELSE <<Head(l)>> \o Remove(Tail(l), x)

\* account_picker_callback for the button of one offered account.  With a
\* transfer whose destination is still missing it calls
\* prompt_for_accounts(query, ...): a CallbackQuery has no effective_user, the
\* call raises and the keyboard stays as it was.
PickAccount ==
    \E user \in Users :
        /\ effective_user' = user
        /\ UNCHANGED environ
        /\ IF ~is_user_authorized(user)
           THEN Ignored
           ELSE /\ OnScreen("pick_account") # {}
                /\ \E acc \in offered :
                    IF ~held \/ field_to_pick = "None"
                    THEN /\ shown' = "no_proposal_or_field"
                         /\ chat' = "closed"
                         /\ keyboards' = Edited(keyboards, "picker")
                         /\ UNCHANGED <<result, field_to_pick>>
                    ELSE LET picked ==
                                 [result.val EXCEPT
                                    ![field_to_pick] = Num(acc.id),
                                    !["missing_info"] = List(Remove(@.v, field_to_pick))]
                         IN  /\ result' = [result EXCEPT !.val = picked]
                             /\ field_to_pick' = "None"
                             /\ IF picked["type"] = Str("transfer") /\ Missing(picked, "destination_id")
                                THEN UNCHANGED <<chat, shown, keyboards>>
                                ELSE /\ chat' = "menu"
                                     /\ shown' = "updated"
                                     /\ keyboards' = Sent(Edited(keyboards, "picker"), "updated")
                /\ UNCHANGED <<env, ipc, user_tags, main_input, modelCalls, payload, postResult,
                               ledgerPosts, known_accounts, response, held, offered, okActions,
                               original_input, awaiting_context, texts>>
                /\ UNCHANGED syncVars
                /\ UNCHANGED similarVars

\* The message button_callback leaves for what post_transaction returned.
Reported(ret) ==
    CASE ret = "True" -> "confirmed"
      [] ret = "errors" -> "errors"
      [] ret = "message" -> "message"
      [] OTHER -> "failed"

\* button_callback for 'ok', pressed on a keyboard that has the button.  An
\* exception of post_transaction leaves the handler before anything is shown
\* or cleared.
ButtonOk ==
    \E user \in Users :
        /\ effective_user' = user
        /\ UNCHANGED environ
        /\ IF ~is_user_authorized(user)
           THEN Ignored
           ELSE /\ okActions < MaxOk
                /\ okActions' = okActions + 1
                /\ UNCHANGED texts
                /\ \E kb \in OnScreen("ok") :
                    IF ~held
                    THEN /\ shown' = "no_proposal"
                         /\ keyboards' = Edited(keyboards, kb)
                         /\ UNCHANGED <<env, ipc, user_tags, main_input, modelCalls, result, payload,
                                        postResult, ledgerPosts, known_accounts, response, chat,
                                        held, field_to_pick, offered, original_input,
                                        awaiting_context>>
                         /\ UNCHANGED syncVars
                         /\ UNCHANGED similarVars
                    ELSE /\ PostTransaction
                         /\ IF ipc' = "post_raised"
                            THEN UNCHANGED <<chat, held, field_to_pick, offered, shown,
                                             original_input, awaiting_context, keyboards>>
                            ELSE /\ shown' = Reported(postResult')
                                 /\ keyboards' = Edited(keyboards, kb)
                                 /\ held' = FALSE
                                 /\ field_to_pick' = "None"
                                 /\ original_input' = <<>>
                                 /\ awaiting_context' = FALSE
                                 /\ chat' = "done"
                                 /\ UNCHANGED offered

SyncParked ==
    /\ kind = "none"
    /\ remote = <<>>
    /\ conn = db
    /\ pc = "off"
    /\ page = 1
    /\ page_data = <<>>
    /\ idx = 1
    /\ requests = <<>>
    /\ answers = <<>>
    /\ runs = 0
    /\ lastEnd = "none"
    /\ committed = 0
    /\ startDb = db
    /\ prevCommitted = 0
    /\ prevCount = 0
    /\ sameRemote = FALSE
    /\ remoteChanged = FALSE

IntentInit ==
    /\ NearNominal(env)
    /\ db = env.store
    /\ ipc = "start"
    /\ user_tags = <<>>
    /\ main_input = <<>>
    /\ modelCalls = 0
    /\ result = Pending
    /\ payload = <<>>
    /\ postResult = "none"
    /\ ledgerPosts = 0
    /\ known_accounts = {}
    /\ response = "unsent"
    /\ chat = "resolving"
    /\ held = FALSE
    /\ field_to_pick = "None"
    /\ offered = {}
    /\ shown = "processing"
    /\ okActions = 0
    /\ original_input = <<>>
    /\ awaiting_context = FALSE
    /\ keyboards = NoKeyboards
    /\ texts = 1
    /\ environ = [set |-> TRUE, ids |-> <<1>>]
    /\ effective_user = 1
    /\ SimilarParked
    /\ SyncParked

IntentNext ==
    ExtractTags \/ CallModel \/ ParseJson \/ Assemble \/ Present \/ PickAccount \/ ButtonOk

IntentSpec == IntentInit /\ [][IntentNext]_vars

(***************************************************************************)
(* main.py: a session.  Text messages and button presses come in any       *)
(* order; a button can be pressed as long as its keyboard is on screen.    *)
(* Each handler runs to its end before the next update is handled, the     *)
(* call of determine_intent included.                                      *)
(***************************************************************************)
MaxTexts == 2
MaxModelCalls == 3

Raised == [kind |-> "raised", val |-> <<>>]

\* determine_intent(user_input) from its call to its return: None, a proposal
\* (its tags in one of the orders list(set(...)) can give), or an exception.
determine_intent(user_input, reply, object, today, store) ==
    IF AfterModelCall(reply) = "returned" \/ AfterParse(reply) = "returned"
    THEN {NoProposal}
    ELSE IF AssembleRaises(reply, object) THEN {Raised}
    ELSE LET extracted == extract_tags_from_input(user_input)
         IN  {[kind |-> "proposal",
               val |-> ProposalOf(extracted.main_input, o, object, today, store)] :
                 o \in Orders(CombinedTags(extracted.tags,
                                           get(object, "tags", List(<<>>)).v))}

\* What the user types.
ChatTexts == {<<"a">>, <<"B", " ">>}

\* What the model replies in a session: a failure, a text, or one of these
\* objects: a withdrawal from account 1, a withdrawal whose source is to be
\* picked, a transfer whose two accounts are to be picked, a withdrawal whose
\* source is left as "Unknown", and a withdrawal without a description (the
\* proposal then carries the text that was resolved).
ChatReplies == {"error", "json_other", "object"}

ChatObjects ==
    {NominalObject,
     [NominalObject EXCEPT !["source_id"] = Str("unknown"),
                           !["missing_info"] = List(<<"source_id">>)],
     [NominalObject EXCEPT !["type"] = Str("transfer"),
                           !["source_id"] = Str("unknown"),
                           !["missing_info"] = List(<<"source_id", "destination_id">>)],
     [NominalObject EXCEPT !["source_id"] = Str("Unknown")],
     [NominalObject EXCEPT !["description"] = Absent]}

\* The added text alone.
WithContextAlone(original, additional) == additional

\* f"{original_input}, {additional}"
WithContext(original, additional) == original \o <<",", " ">> \o additional

\* A handler stores None as well as a proposal.
StoredEvenNone(new, user_input) ==
    [proposal |-> IF new = Raised THEN result ELSE new,
     held |-> IF new = Raised THEN held ELSE new.kind = "proposal",
     original_input |-> IF new = Raised THEN original_input ELSE user_input,
     awaiting_context |-> IF new = Raised THEN awaiting_context ELSE FALSE]

\* What a text handler leaves in context.user_data once determine_intent is
\* back: the proposal and its input when there is one, else what was there.
Stored(new, user_input) ==
    IF new.kind = "proposal"
    THEN [proposal |-> new, held |-> TRUE, original_input |-> user_input,
          awaiting_context |-> FALSE]
    ELSE [proposal |-> result, held |-> held, original_input |-> original_input,
          awaiting_context |-> awaiting_context]

\* start: the greeting, followed here where it opens a conversation.
Start ==
    \E user \in Users :
        /\ effective_user' = user
        /\ UNCHANGED environ
        /\ IF ~is_user_authorized(user)
           THEN Ignored
           ELSE /\ chat = "waiting"
                /\ shown' = "greeting"
                /\ UNCHANGED <<env, ipc, user_tags, main_input, modelCalls, result,
                               payload, postResult, ledgerPosts, known_accounts,
                               response, chat, held, field_to_pick, offered, okActions>>
                /\ UNCHANGED sessionVars
                /\ UNCHANGED syncVars
                /\ UNCHANGED similarVars

\* handle_additional_context: a text message.  Without awaiting_context it is
\* handle_message on the text; with it, the text is added to original_input.
TextMessage ==
    \E user \in Users :
        /\ effective_user' = user
        /\ UNCHANGED environ
        /\ IF ~is_user_authorized(user)
           THEN Ignored
           ELSE /\ texts < MaxTexts
                /\ texts' = texts + 1
                /\ modelCalls < MaxModelCalls
                /\ modelCalls' = modelCalls + 1
                /\ \E text \in ChatTexts, reply \in ChatReplies, object \in ChatObjects :
                    LET user_input == IF awaiting_context
                                      THEN WithContext(original_input, strip(text))
                                      ELSE strip(text)
                    IN  \E new \in determine_intent(user_input, reply, object, env.today, db) :
                        /\ ipc' = IF new = Raised THEN "raised" ELSE "returned"
                        /\ result' = Stored(new, user_input).proposal
                        /\ held' = Stored(new, user_input).held
                        /\ original_input' = Stored(new, user_input).original_input
                        /\ awaiting_context' = Stored(new, user_input).awaiting_context
                        /\ IF new.kind # "proposal"
                           THEN /\ shown' = IF new = Raised
                                            THEN (IF awaiting_context THEN shown ELSE "processing")
                                            ELSE IF awaiting_context THEN "couldnt_parse_context"
                                            ELSE "couldnt_parse"
                                /\ UNCHANGED <<chat, field_to_pick, offered, keyboards>>
                           ELSE IF Missing(new.val, "source_id")
                                      \/ Missing(new.val, "destination_id")
                           THEN LET left == PromptForAccounts(new.val, db)
                                IN  /\ chat' = left.chat
                                    /\ shown' = left.shown
                                    /\ field_to_pick' = left.field_to_pick
                                    /\ offered' = left.offered
                                    /\ keyboards' = Sent(keyboards, left.sent)
                           ELSE /\ chat' = "menu"
                                /\ shown' = "proposal"
                                /\ keyboards' = Sent(keyboards, "menu")
                                /\ UNCHANGED <<field_to_pick, offered>>
                /\ UNCHANGED <<env, user_tags, main_input, payload, postResult, ledgerPosts,
                               known_accounts, response, okActions>>
                /\ UNCHANGED syncVars
                /\ UNCHANGED similarVars

\* button_callback for 'cancel', pressed on a keyboard that has the button.
ButtonCancel ==
    \E user \in Users :
        /\ effective_user' = user
        /\ UNCHANGED environ
        /\ IF ~is_user_authorized(user)
           THEN Ignored
           ELSE /\ \E kb \in OnScreen("cancel") :
                    /\ keyboards' = Edited(keyboards, kb)
                    /\ IF ~held
                       THEN /\ shown' = "no_proposal"
                            /\ UNCHANGED <<chat, held, field_to_pick, original_input, awaiting_context>>
                       ELSE /\ shown' = "cancelled"
                            /\ chat' = "done"
                            /\ held' = FALSE
                            /\ field_to_pick' = "None"
                            /\ original_input' = <<>>
                            /\ awaiting_context' = FALSE
                /\ UNCHANGED <<env, ipc, user_tags, main_input, modelCalls, result, payload,
                               postResult, ledgerPosts, known_accounts, response, offered, okActions,
                               texts>>
                /\ UNCHANGED syncVars
                /\ UNCHANGED similarVars

\* button_callback for 'add_context'.
ButtonAddContext ==
    \E user \in Users :
        /\ effective_user' = user
        /\ UNCHANGED environ
        /\ IF ~is_user_authorized(user)
           THEN Ignored
           ELSE /\ \E kb \in OnScreen("add_context") :
                    /\ keyboards' = Edited(keyboards, kb)
                    /\ IF ~held
                       THEN shown' = "no_proposal" /\ UNCHANGED awaiting_context
                       ELSE shown' = "provide_context" /\ awaiting_context' = TRUE
                /\ UNCHANGED <<env, ipc, user_tags, main_input, modelCalls, result, payload,
                               postResult, ledgerPosts, known_accounts, response, chat, held,
                               field_to_pick, offered, okActions, original_input, texts>>
                /\ UNCHANGED syncVars
                /\ UNCHANGED similarVars

\* button_callback for 'regenerate'.  The update of a button press has no
\* message: prompt_for_accounts and present_proposal raise where they reply
\* to update.message, the picker goes out through update.effective_message.
ButtonRegenerate ==
    \E user \in Users :
        /\ effective_user' = user
        /\ UNCHANGED environ
        /\ IF ~is_user_authorized(user)
           THEN Ignored
           ELSE /\ \E kb \in OnScreen("regenerate") :
                    IF ~held
                    THEN /\ shown' = "no_proposal"
                         /\ keyboards' = Edited(keyboards, kb)
                         /\ UNCHANGED <<ipc, modelCalls, result, chat, field_to_pick, offered>>
                    ELSE /\ modelCalls < MaxModelCalls
                         /\ modelCalls' = modelCalls + 1
                         /\ \E reply \in ChatReplies, object \in ChatObjects :
                             \E new \in determine_intent(original_input, reply, object, env.today, db) :
                                 /\ ipc' = IF new = Raised THEN "raised" ELSE "returned"
                                 /\ IF new = Raised
                                    THEN UNCHANGED <<result, chat, field_to_pick, offered, shown,
                                                     keyboards>>
                                    ELSE IF new = NoProposal
                                    THEN /\ shown' = "could_not_regenerate"
                                         /\ keyboards' = Edited(keyboards, kb)
                                         /\ UNCHANGED <<result, chat, field_to_pick, offered>>
                                    ELSE /\ result' = new
                                         /\ IF Missing(new.val, "source_id")
                                                  \/ Missing(new.val, "destination_id")
                                            THEN LET left == PromptForAccounts(new.val, db)
                                                 IN  IF left.sent = "picker"
                                                     THEN /\ chat' = left.chat
                                                          /\ shown' = left.shown
                                                          /\ field_to_pick' = left.field_to_pick
                                                          /\ offered' = left.offered
                                                          /\ keyboards' = Sent(keyboards, "picker")
                                                     ELSE UNCHANGED <<chat, field_to_pick, offered,
                                                                      shown, keyboards>>
                                            ELSE /\ chat' = "menu"
                                                 /\ shown' = "updated"
                                                 /\ keyboards' = Sent(Edited(keyboards, kb), "updated")
                                                 /\ UNCHANGED <<field_to_pick, offered>>
                /\ UNCHANGED <<env, user_tags, main_input, payload, postResult, ledgerPosts,
                               known_accounts, response, held, okActions, original_input,
                               awaiting_context, texts>>
                /\ UNCHANGED syncVars
                /\ UNCHANGED similarVars

ChatInit ==
    /\ env = NominalEnv
    /\ db = env.store
    /\ ipc = "waiting"
    /\ user_tags = <<>>
    /\ main_input = <<>>
    /\ modelCalls = 0
    /\ result = NoProposal
    /\ payload = <<>>
    /\ postResult = "none"
    /\ ledgerPosts = 0
    /\ known_accounts = {}
    /\ response = "unsent"
    /\ chat = "waiting"
    /\ held = FALSE
    /\ field_to_pick = "None"
    /\ offered = {}
    /\ shown = "nothing"
    /\ okActions = 0
    /\ original_input = <<>>
    /\ awaiting_context = FALSE
    /\ keyboards = NoKeyboards
    /\ texts = 0
    /\ environ \in Settings
    /\ effective_user = 0
    /\ SimilarParked
    /\ SyncParked

ChatNext ==
    \/ Start
    \/ TextMessage
    \/ PickAccount
    \/ ButtonOk
    \/ ButtonCancel
    \/ ButtonAddContext
    \/ ButtonRegenerate

ChatSpec == ChatInit /\ [][ChatNext]_vars

(***************************************************************************)
(* determine_intent while sync_accounts runs: the bot and the sync script  *)
(* are two processes on one database file.  A read sees what is committed. *)
(***************************************************************************)
ResolveStep == ExtractTags \/ CallModel \/ ParseJson \/ Assemble

ConcurrentInit ==
    /\ kind = "accounts"
    /\ remote \in Remotes[kind]
    /\ db = EmptyDb
    /\ conn = EmptyDb
    /\ pc = "idle"
    /\ page = 1
    /\ page_data = <<>>
    /\ idx = 1
    /\ requests = <<>>
    /\ answers = <<>>
    /\ runs = 0
    /\ lastEnd = "none"
    /\ committed = 0
    /\ startDb = EmptyDb
    /\ prevCommitted = 0
    /\ prevCount = 0
    /\ sameRemote = FALSE
    /\ remoteChanged = FALSE
    /\ \E r \in ReplyKinds : env = [NominalEnv EXCEPT !.reply = r, !.store = EmptyDb]
    /\ ipc = "start"
    /\ user_tags = <<>>
    /\ main_input = <<>>
    /\ modelCalls = 0
    /\ result = Pending
    /\ payload = <<>>
    /\ postResult = "none"
    /\ ledgerPosts = 0
    /\ known_accounts = {}
    /\ response = "unsent"
    /\ chat = "resolving"
    /\ held = FALSE
    /\ field_to_pick = "None"
    /\ offered = {}
    /\ shown = "processing"
    /\ okActions = 0
    /\ original_input = <<>>
    /\ awaiting_context = FALSE
    /\ keyboards = NoKeyboards
    /\ texts = 1
    /\ environ = [set |-> TRUE, ids |-> <<1>>]
    /\ effective_user = 1
    /\ SimilarParked

ConcurrentNext == SyncNext \/ ResolveStep

ConcurrentSpec == ConcurrentInit /\ [][ConcurrentNext]_vars


(***************************************************************************)
(* intent_filter.py: find_similar_transactions.  A stored embedding is a   *)
(* blob; read as float32 it is a vector.  The vectors here are the zero    *)
(* vector and unit vectors, for which the cosine is the dot product.       *)
(***************************************************************************)
MaxTopK == 3

EmbeddingIds == {1, 2, 3}

Vectors == {<<1, 0>>, <<0, 1>>, <<-1, 0>>, <<0, 0>>}

\* Blobs np.frombuffer or cosine_similarity rejects: a byte length that is no
\* multiple of 4, NULL, a vector of another length than the query's.
MalformedBlobs ==
    {[kind |-> "torn", vec |-> <<>>], [kind |-> "null", vec |-> <<>>],
     [kind |-> "f32", vec |-> <<1>>]}

Blobs == {[kind |-> "f32", vec |-> v] : v \in Vectors} \cup MalformedBlobs

\* np.frombuffer(emb, dtype=np.float32) and cosine_similarity([embedding],
\* [emb_array]) both go through.
WellFormed(q, blob) == blob.kind = "f32" /\ Len(blob.vec) = Len(q)

RECURSIVE Dot(_, _)
Dot(a, b) == IF a = <<>> THEN 0 ELSE Head(a) * Head(b) + Dot(Tail(a), Tail(b))

\* cosine_similarity([embedding], [emb_array])[0][0]
Cosine(q, blob) == Dot(q, blob.vec)

\* cur.fetchall(): the rows in the order of the primary key transaction_id.
RECURSIVE EmbeddingRows(_)
EmbeddingRows(tbl) ==
    IF tbl = {} THEN <<>>
    ELSE LET first == CHOOSE e \in tbl : \A o \in tbl : e.transaction_id <= o.transaction_id
         IN  <<first>> \o EmbeddingRows(tbl \ {first})

\* The loop without its try/except: a malformed row ends the call.
RECURSIVE ScoredUnguarded(_, _)
ScoredUnguarded(rows, q) ==
    IF rows = <<>> THEN [ok |-> TRUE, val |-> <<>>]
    ELSE LET rest == ScoredUnguarded(Tail(rows), q)
             row == Head(rows)
         IN  IF ~WellFormed(q, row.embedding) \/ ~rest.ok THEN [ok |-> FALSE, val |-> <<>>]
             ELSE [ok |-> TRUE,
                   val |-> <<[tid |-> row.transaction_id,
                              similarity |-> Cosine(q, row.embedding)]>> \o rest.val]

\* The loop over rows: a pair per row, a row that raises is logged and skipped.
RECURSIVE Scored(_, _)
Scored(rows, q) ==
    IF rows = <<>> THEN [ok |-> TRUE, val |-> <<>>]
    ELSE LET rest == Scored(Tail(rows), q)
             row == Head(rows)
         IN  IF ~WellFormed(q, row.embedding) THEN rest
             ELSE [ok |-> TRUE,
                   val |-> <<[tid |-> row.transaction_id,
                              similarity |-> Cosine(q, row.embedding)]>> \o rest.val]

\* sort(key=lambda x: x[1]) without reverse=True: ascending.
RECURSIVE SortedAscending(_)
SortedAscending(l) ==
    IF l = <<>> THEN <<>>
    ELSE LET x == l[Len(l)]
             done == SortedAscending(SubSeq(l, 1, Len(l) - 1))
             Before(y) == y.similarity <= x.similarity
             After(y) == y.similarity > x.similarity
         IN  SelectSeq(done, Before) \o <<x>> \o SelectSeq(done, After)

\* sort(key=lambda x: x[1], reverse=True): descending and stable, equal
\* similarities stay in row order.
RECURSIVE Sorted(_)
Sorted(l) ==
    IF l = <<>> THEN <<>>
    ELSE LET x == l[Len(l)]
             done == Sorted(SubSeq(l, 1, Len(l) - 1))
             Before(y) == y.similarity >= x.similarity
             After(y) == y.similarity < x.similarity
         IN  SelectSeq(done, Before) \o <<x>> \o SelectSeq(done, After)

Min(a, b) == IF a <= b THEN a ELSE b

find_similar_transactions(store, q, k) ==
    LET scored == Scored(EmbeddingRows(store.transaction_embeddings), q)
    IN  IF ~scored.ok THEN [ok |-> FALSE, val |-> <<>>]
        ELSE [ok |-> TRUE,
              val |-> SubSeq(Sorted(scored.val), 1, Min(k, Len(scored.val)))]

Unset == [ok |-> FALSE, val |-> <<"unset">>]

EmbeddingTables ==
    {tbl \in SUBSET [transaction_id : EmbeddingIds, embedding : Blobs] :
        \A e1, e2 \in tbl : e1.transaction_id = e2.transaction_id => e1 = e2}

SimilarInit ==
    /\ \E tbl \in EmbeddingTables : db = [EmptyDb EXCEPT !.transaction_embeddings = tbl]
    /\ query \in Vectors \ {<<0, 0>>}
    /\ top_k \in 0..MaxTopK
    /\ similar = Unset
    /\ SyncParked
    /\ IntentParked

FindSimilar ==
    /\ similar = Unset
    /\ similar' = find_similar_transactions(db, query, top_k)
    /\ UNCHANGED <<query, top_k>>
    /\ UNCHANGED syncVars
    /\ UNCHANGED <<env, ipc, user_tags, main_input, modelCalls, result, payload,
                   postResult, ledgerPosts, known_accounts, response>>
    /\ UNCHANGED chatVars
    /\ UNCHANGED sessionVars
    /\ UNCHANGED authVars

SimilarSpec == SimilarInit /\ [][FindSimilar]_vars

(***************************************************************************)
(* Properties of determine_intent and post_transaction.                    *)
(***************************************************************************)
HasMarker(cs) == find(cs, MARK) # 0

NoDuplicates(seq) == \A i, j \in DOMAIN seq : seq[i] = seq[j] => i = j

PresentKeys(object) == {k \in ReplyKeys : object[k] # Absent}

\* The tags of the reply object when they are a list, none otherwise.
ModelTags ==
    IF env.object["tags"].t = "list" THEN Range(env.object["tags"].v) ELSE {}

\* C5: for a message with a "tags:" marker, the proposal's tags hold every user
\* tag, are exactly the user's and the model's tags, each once; and every user
\* tag is trimmed, lower-cased and not empty.
C5_TagsAreUnion ==
    (result.kind = "proposal" /\ HasMarker(env.message)) =>
        LET tags == result.val["tags"].v
        IN  /\ Range(user_tags) \subseteq Range(tags)
            /\ Range(tags) = Range(user_tags) \cup ModelTags
            /\ NoDuplicates(tags)
            /\ \A tag \in Range(user_tags) : tag # <<>> /\ tag = lower(strip(tag))

\* A user tag typed in upper case and a model tag the user did not give.
C5_Witness ==
    /\ result.kind = "proposal"
    /\ HasMarker(env.message)
    /\ "B" \in Range(env.message)
    /\ user_tags = <<(<<"b">>)>>
    /\ ModelTags = {TagA, TagC}
    /\ Len(result.val["tags"].v) = 3

\* C6: the model is called once per determine_intent; after a failed call or a
\* reply that is not JSON the function has returned None, with no second call,
\* no POST and the store as it was.
C6_OneModelCall ==
    /\ ipc \in {"start", "extracted"} => modelCalls = 0
    /\ ipc \notin {"start", "extracted"} => modelCalls = 1
    /\ (env.reply \in {"error", "text"} /\ ipc \notin {"start", "extracted", "responded"})
          => /\ ipc = "returned"
             /\ result = NoProposal
             /\ ledgerPosts = 0
    /\ db = env.store

C6_Witness ==
    /\ ipc = "returned"
    /\ env.reply = "text"
    /\ result = NoProposal
    /\ modelCalls = 1

\* C7 as claimed: a proposal is returned only for a reply with exactly the
\* documented keys.
C7_ExactKeysOnly ==
    result.kind = "proposal" => PresentKeys(env.object) = DocumentedKeys

\* C7 as amended: every reply that is a JSON object whose tags are absent or a
\* list yields a proposal, whatever its keys; the proposal has the proposal's
\* keys and no other; and only an object yields a proposal.
C7_ObjectYieldsProposal ==
    /\ (env.reply = "object" /\ env.object["tags"].t \in {"absent", "list"}
          /\ ipc \notin {"start", "extracted", "responded", "parsed"})
          => /\ result.kind = "proposal"
             /\ DOMAIN result.val = ProposalKeys
    /\ result.kind = "proposal" => env.reply = "object"

\* A proposal from a reply that lacks a documented key and has an extra one.
C7_Witness ==
    /\ result.kind = "proposal"
    /\ env.object["notes"] # Absent
    /\ env.object["currency_code"] = Absent
    /\ result.val["currency_code"] = Str("USD")

ExpectedAccountFields(type) ==
    CASE type = Str("withdrawal") -> {"source_id"}
      [] type = Str("deposit") -> {"destination_id"}
      [] type = Str("transfer") -> {"source_id", "destination_id"}
      [] OTHER -> {}

\* C8: in a proposal, an account field its type expects that is "unknown" is
\* listed in missing_info.
C8_UnresolvedListed ==
    result.kind = "proposal" =>
        \A k \in ExpectedAccountFields(result.val["type"]) :
            result.val[k] = Str("unknown") => k \in Range(result.val["missing_info"].v)

\* C9: a proposal's date is the date of the day it was resolved.
C9_DateIsToday ==
    result.kind = "proposal" => result.val["date"] = Str(env.today)

\* A proposal from a reply that carries another date.
C9_Witness ==
    /\ result.kind = "proposal"
    /\ env.object["date"] = Str("2023-10-05")
    /\ env.today = "2025-03-02"

\* C10: a payload that was built has the six base keys; has each of source_id,
\* destination_id and bill_id exactly when the proposal's value is not
\* "unknown"; has tags exactly when the proposal's tag list is not empty; and
\* has no other key.
C10_PayloadFields ==
    ipc = "posted" =>
        /\ RequiredPayloadKeys \subseteq DOMAIN payload
        /\ \A k \in OptionalIdKeys :
              k \in DOMAIN payload <=> result.val[k] # Str("unknown")
        /\ "tags" \in DOMAIN payload <=> result.val["tags"].v # <<>>
        /\ DOMAIN payload \subseteq RequiredPayloadKeys \cup OptionalIdKeys \cup {"tags"}

\* A payload with a source and a bill, and without a destination or tags.
C10_Witness ==
    /\ ipc = "posted"
    /\ DOMAIN payload = RequiredPayloadKeys \cup {"source_id", "bill_id"}
    /\ result.val["destination_id"] = Str("unknown")
    /\ result.val["tags"].v = <<>>
    /\ payload["bill_id"] = Num(1)


(***************************************************************************)
(* Properties of the submission and of the chat handlers.                  *)
(***************************************************************************)
\* C11: post_transaction reports success only for an answer with data, returns
\* the errors for an answer with errors, and reports a failure for no answer
\* and for an answer with neither.
C11_ResultFollowsResponse ==
    ipc = "posted" =>
        /\ postResult \in {"True", "message"} => response \in {"data_full", "data_bare"}
        /\ response = "errors" => postResult = "errors"
        /\ response \in {"none", "empty", "other"} => postResult = "False"

\* The submissions that did not create a transaction.
FailedAnswers == {"none", "empty", "errors", "other"}

\* C12: a step sends at most one POST, and only an 'ok' callback sends one;
\* there are never more POSTs than 'ok' callbacks; and when the POST fails or
\* is rejected the user is told so and the proposal is dropped, not re-sent.
C12_OnePostPerOk ==
    /\ [](ledgerPosts <= okActions)
    /\ [][ledgerPosts' # ledgerPosts =>
            /\ ledgerPosts' = ledgerPosts + 1
            /\ okActions' = okActions + 1
            /\ ~held'
            /\ response' \in FailedAnswers => shown' \in {"failed", "errors"}]_vars

\* C13: determine_intent never ends with an exception.
C13_NeverRaises == ipc # "raised"

\* C19 as claimed: every mirrored account has a line in the known-accounts
\* section.
C19_AllAccountsListed ==
    ipc \notin {"off", "start"} => AccountLinesOfAllTypes(db) \subseteq known_accounts

\* C19 as amended: the known-accounts section has a line name -> id for every
\* mirrored account of type asset and for no other account.
C19_AssetAccountsListed ==
    ipc \notin {"off", "start"} =>
        known_accounts =
            {[name |-> r.name, id |-> PyStr(Num(r.id))] :
                r \in {a \in Range(db.accounts) : a.type = "asset"}}

\* A store with an asset account and an expense account: one line.
C19_Witness ==
    /\ ipc = "extracted"
    /\ known_accounts = {[name |-> "Wallet", id |-> "1"]}
    /\ \E r \in Range(db.accounts) : r.type = "expense"

\* C20: every account on the picker keyboard is an asset account.
C20_PickerOffersAssetsOnly ==
    \A acc \in offered :
        \A r \in Range(db.accounts) : r.id = acc.id => r.type = "asset"


(***************************************************************************)
(* Properties of find_similar_transactions.                                *)
(***************************************************************************)
\* The stored rows whose embedding is a vector of the query's length.
ValidRows == {e \in db.transaction_embeddings : WellFormed(query, e.embedding)}

MalformedRows == db.transaction_embeddings \ ValidRows

\* C16: the result has min(top_k, number of valid embeddings) pairs; each is
\* a valid row's transaction id with its cosine similarity to the query; no id
\* comes twice; the similarities do not increase; no valid row left out is
\* more similar than a returned one; and with top_k = 1 the pair returned has
\* the greatest similarity.
C16_TopKBySimilarity ==
    similar # Unset =>
        LET r == similar.val
        IN  /\ similar.ok
            /\ Len(r) = Min(top_k, Cardinality(ValidRows))
            /\ \A i \in DOMAIN r :
                  \E e \in ValidRows :
                      /\ e.transaction_id = r[i].tid
                      /\ r[i].similarity = Cosine(query, e.embedding)
            /\ \A i, j \in DOMAIN r : r[i].tid = r[j].tid => i = j
            /\ \A i, j \in DOMAIN r : i < j => r[i].similarity >= r[j].similarity
            /\ \A e \in ValidRows :
                  (\A i \in DOMAIN r : r[i].tid # e.transaction_id) =>
                      \A i \in DOMAIN r : Cosine(query, e.embedding) <= r[i].similarity
            /\ (top_k = 1 /\ ValidRows # {}) =>
                  \A e \in ValidRows : Cosine(query, e.embedding) <= r[1].similarity

\* Three valid rows of similarity 0, 1 and -1, and top_k = 2.
C16_Witness ==
    /\ query = <<1, 0>>
    /\ top_k = 2
    /\ Cardinality(ValidRows) = 3
    /\ similar = [ok |-> TRUE,
                  val |-> <<[tid |-> 2, similarity |-> 1], [tid |-> 1, similarity |-> 0]>>]

\* C17: with malformed rows in the store the call does not raise, returns no
\* malformed row's transaction id, and returns what it returns for the store
\* without the malformed rows.
C17_MalformedSkipped ==
    (similar # Unset /\ MalformedRows # {}) =>
        /\ similar.ok
        /\ \A i \in DOMAIN similar.val :
              \A e \in MalformedRows : similar.val[i].tid # e.transaction_id
        /\ similar =
              find_similar_transactions(
                  [db EXCEPT !.transaction_embeddings = ValidRows], query, top_k)

\* A torn blob between two valid rows: the two valid rows are ranked.
C17_Witness ==
    /\ \E e \in MalformedRows : e.transaction_id = 2 /\ e.embedding.kind = "torn"
    /\ top_k = 3
    /\ similar.ok
    /\ Len(similar.val) = 2
    /\ similar.val[1].tid = 3
    /\ similar.val[1].similarity > similar.val[2].similarity

(***************************************************************************)
(* Properties of the names determine_intent attaches to a proposal.        *)
(***************************************************************************)
\* The value is the id n, as a number or as its decimal text.
IsId(x, n) == x = Num(n) \/ x = Str(PyStr(Num(n)))

\* determine_intent has just returned a proposal: no handler has touched it.
JustReturned == ipc = "returned" /\ chat = "resolving" /\ result.kind = "proposal"

\* C21: in a proposal determine_intent returns, a source_id (destination_id)
\* that is the id of a mirrored account, whatever the account's type, comes
\* with that account's name as source_name (destination_name).
C21_AccountNamesAttached ==
    JustReturned =>
        \A r \in Range(db.accounts) :
            /\ IsId(result.val["source_id"], r.id)
                  => result.val["source_name"] = Str(r.name)
            /\ IsId(result.val["destination_id"], r.id)
                  => result.val["destination_name"] = Str(r.name)

\* C22: in a proposal determine_intent returns, a bill_id that is the id of a
\* mirrored bill comes with that bill's name as bill_name, and any other
\* bill_id with the empty name.
C22_BillNameAttached ==
    JustReturned =>
        /\ \A b \in Range(db.bills) :
              IsId(result.val["bill_id"], b.id) => result.val["bill_name"] = Str(b.name)
        /\ (\A b \in Range(db.bills) : ~IsId(result.val["bill_id"], b.id))
              => result.val["bill_name"] = Str("")

\* The value is the id of a bill of the store.
KnownBill(x) == \E b \in Range(db.bills) : IsId(x, b.id)

\* C23: the bill_id of a proposal is "unknown" or the id of a bill of the
\* store, and a payload that was posted has no bill_id or the id of a bill of
\* the store.
C23_BillIdKnown ==
    /\ result.kind = "proposal" =>
          result.val["bill_id"] = Str("unknown") \/ KnownBill(result.val["bill_id"])
    /\ (ipc = "posted" /\ "bill_id" \in DOMAIN payload) => KnownBill(payload["bill_id"])

(***************************************************************************)
(* Properties of the tag rows.                                             *)
(***************************************************************************)
\* The items the running loop has been through: those of the pages committed
\* in this run and those of the page in progress before the cursor.
ProcessedItems ==
    Flatten(SubSeq(remote, 1, committed))
        \o (IF pc \in {"items", "commit"} THEN SubSeq(page_data, 1, idx - 1) ELSE <<>>)

\* The tag rows the connection holds beyond those of the start of the run.
InsertedTagRows ==
    SubSeq(conn.transactions_tags, Len(startDb.transactions_tags) + 1,
           Len(conn.transactions_tags))

NonEmptyTags(item) ==
    LET NonEmpty(t) == t # ""
    IN  SelectSeq(item.tags, NonEmpty)

ConcatNames(text) ==
    LET Name(tok) == tok # ", "
    IN  SelectSeq(text, Name)

\* C24: whatever the sync runs so far, the known-tags list has no name twice,
\* and for every transaction neither the exemplar's common_tags nor the tags
\* part of its embedding text has a name twice.
C24_TagsReadOnce ==
    pc = "idle" =>
        /\ NoDuplicates(load_tags(db))
        /\ \A t \in Range(db.transactions) :
              /\ NoDuplicates(common_tags(db, t.id))
              /\ \A text \in GroupConcat(db, t.id) : NoDuplicates(ConcatNames(text))

(***************************************************************************)
(* Properties of determine_intent beside a running sync.                   *)
(***************************************************************************)
\* C26: no step of determine_intent changes the store or what the sync's
\* connection holds; and with determine_intent interleaved the mirrored
\* tables are, at every point, the pages the run committed applied to what
\* the store held when the run started.
C26_ResolutionReadOnly ==
    /\ [][ResolveStep => (db' = db /\ conn' = conn)]_vars
    /\ []((runs >= 1 /\ ~remoteChanged) =>
            Mirrored(db) =
                Mirrored(ApplyItems(kind, startDb, Flatten(SubSeq(remote, 1, committed)))))

\* determine_intent read the context before the sync committed a page and
\* the account map after: no account in the prompt, the name in the proposal.
C26_Witness ==
    /\ ipc = "returned"
    /\ result.kind = "proposal"
    /\ pc = "commit"
    /\ committed = 1
    /\ conn # db
    /\ known_accounts = {}
    /\ result.val["source_name"] = Str("n1")

(***************************************************************************)
(* Properties of the proposal's defaults.                                  *)
(***************************************************************************)
\* The documented value of a field the reply leaves out.
DocumentedDefault(k) ==
    CASE k = "type" -> Str("withdrawal")
      [] k = "currency_code" -> Str("USD")
      [] k = "amount" -> Str("0")
      [] OTHER -> Str("unknown")

DefaultedKeys ==
    {"type", "currency_code", "amount", "source_id", "destination_id", "bill_id"}

\* C27: in a proposal determine_intent returns, a field the reply object
\* leaves out has its documented default, and missing_info is the empty list
\* when the reply leaves it out or gives something that is not a list.
C27_DefaultsWhenOmitted ==
    JustReturned =>
        /\ \A k \in DefaultedKeys :
              env.object[k] = Absent => result.val[k] = DocumentedDefault(k)
        /\ env.object["missing_info"].t # "list" => result.val["missing_info"] = List(<<>>)

\* A reply without a type and with a text as missing_info.
C27_Witness ==
    /\ JustReturned
    /\ env.object["type"] = Absent
    /\ env.object["missing_info"] = Str("source_id")
    /\ result.val["type"] = Str("withdrawal")
    /\ result.val["missing_info"] = List(<<>>)

(***************************************************************************)
(* Properties of a session.                                                *)
(***************************************************************************)
\* C28: when a POST is sent, the missing_info of the proposal posted has no
\* account field its type requires.
C28_NoPostWhileMissing ==
    [][ledgerPosts' # ledgerPosts =>
          \A k \in ExpectedAccountFields(result.val["type"]) : ~Missing(result.val, k)]_vars

\* The callbacks that come after the proposal was dropped.
LaterCallback == ButtonOk \/ ButtonRegenerate \/ ButtonAddContext \/ PickAccount

\* C29: after an 'ok' or a 'cancel' callback the session holds no proposal;
\* while it holds none, no 'ok', 'regenerate', 'add_context' or pick callback
\* sends a POST or calls the model; and the proposal that was posted is no
\* longer held, so it is not posted again.
C29_DroppedAfterOkOrCancel ==
    /\ [][(ButtonOk \/ ButtonCancel) => ~held']_vars
    /\ [][(~held /\ LaterCallback) =>
            (ledgerPosts' = ledgerPosts /\ modelCalls' = modelCalls)]_vars
    /\ [][ledgerPosts' # ledgerPosts => ~held']_vars

(***************************************************************************)
(* Properties of the stored embeddings.                                    *)
(***************************************************************************)
\* C30: between runs, the stored embedding of a transaction is the encoding
\* of the text rendered from its row and its tag rows as they are now.
C30_EmbeddingMatchesRow ==
    pc = "idle" =>
        \A t \in Range(db.transactions) :
            \A e \in db.transaction_embeddings :
                e.transaction_id = t.id =>
                    \E names \in Perms(TagNames(db, t.id)) :
                        e.embedding = Encode(RenderedText(t, names))

(***************************************************************************)
(* Properties of extract_tags_from_input.                                  *)
(***************************************************************************)
\* The text after the first marker.
AfterFirstMarker(cs) == SubSeq(cs, find(cs, MARK) + 1, Len(cs))

\* The entries of a text between its commas, trimmed and lower-cased, the
\* empty ones dropped.
Entries(cs) ==
    LET trimmed == [i \in DOMAIN split(cs, ",") |-> lower(strip(split(cs, ",")[i]))]
        NonEmpty(e) == e # <<>>
    IN  SelectSeq(trimmed, NonEmpty)

\* C31: without a marker the input comes back as it is, with no tag; with one,
\* the main text is the trimmed text before the first marker and the tags are
\* the entries of all the text after it.
C31_TagsExtracted ==
    ipc \notin {"off", "start", "waiting"} =>
        IF ~HasMarker(env.message)
        THEN main_input = env.message /\ user_tags = <<>>
        ELSE /\ main_input = strip(SubSeq(env.message, 1, find(env.message, MARK) - 1))
             /\ user_tags = Entries(AfterFirstMarker(env.message))

(***************************************************************************)
(* Properties of post_transaction's id handling.                           *)
(***************************************************************************)
\* C32: posting a proposal that determine_intent returned never raises: an
\* unresolved id is left out of the payload, not converted to an integer.
C32_PostNeverRaises ==
    result.kind = "proposal" => ipc # "post_raised" /\ postResult # "raised"

(***************************************************************************)
(* Properties of the session: authorization, picks, failures, context.     *)
(***************************************************************************)
\* What a user can observe or the session keeps: the replies, the keyboards,
\* the calls of the model, the POSTs and context.user_data.
Effects ==
    <<shown, keyboards, modelCalls, ledgerPosts, payload, postResult, response,
      result, held, field_to_pick, offered, original_input, awaiting_context, chat>>

\* C33: the update of a user who is not in AUTHORIZED_USERS sends no reply,
\* calls no model, changes no session state and posts nothing, whichever
\* handler receives it; with the variable unset (or empty) nobody is
\* authorized and nothing ever happens.
C33_UnauthorizedIgnored ==
    /\ [][effective_user' \notin AUTHORIZED_USERS => UNCHANGED Effects]_vars
    /\ [](~environ.set \/ environ.ids = <<>> =>
            /\ AUTHORIZED_USERS = {}
            /\ shown = "nothing" /\ keyboards = NoKeyboards /\ modelCalls = 0
            /\ ledgerPosts = 0 /\ ~held)

\* The session's user wrote or pressed while another user is the authorized
\* one: nothing was answered.
C33_Witness ==
    /\ effective_user # 0
    /\ effective_user \notin AUTHORIZED_USERS
    /\ AUTHORIZED_USERS # {}
    /\ shown = "nothing"
    /\ modelCalls = 0

\* An authorized user's press on an account button.
AuthorizedPick == PickAccount /\ effective_user' \in AUTHORIZED_USERS

\* C34: a pick sets the field named by field_to_pick to the chosen account's
\* id, takes that field (and no other) out of missing_info and clears
\* field_to_pick, every other field of the proposal staying as it was, the
\* account names included; without a proposal or a field to pick, the session
\* is left as it was.
C34_PickFrame ==
    [][AuthorizedPick =>
        IF held /\ field_to_pick # "None"
        THEN /\ \E acc \in offered : result'.val[field_to_pick] = Num(acc.id)
             /\ ~Missing(result'.val, field_to_pick)
             /\ \A f \in Range(result.val["missing_info"].v) \ {field_to_pick} :
                    Missing(result'.val, f)
             /\ Range(result'.val["missing_info"].v) \subseteq
                    Range(result.val["missing_info"].v)
             /\ field_to_pick' = "None"
             /\ DOMAIN result'.val = DOMAIN result.val
             /\ \A k \in DOMAIN result.val \ {field_to_pick, "missing_info"} :
                    result'.val[k] = result.val[k]
             /\ UNCHANGED <<held, original_input, awaiting_context>>
        ELSE UNCHANGED <<result, held, field_to_pick, original_input,
                         awaiting_context>>]_vars

\* A pick was applied: the field holds an offered account's id, the proposal
\* is shown again, and the account name is the one from before the pick.
C34_Witness ==
    /\ shown = "updated"
    /\ held
    /\ field_to_pick = "None"
    /\ \E acc \in offered : result.val["source_id"] = Num(acc.id)
    /\ result.val["source_name"] = Str("")

\* C35: while a transfer is held whose accounts are to be picked, a pick is
\* pending: the source is asked for first and, once it is picked, the
\* destination, so that a held transfer with a missing destination always has
\* a picker on screen and a field to pick that is still missing.
C35_TransferPromptedInTurn ==
    (held /\ result.kind = "proposal" /\ result.val["type"] = Str("transfer")
          /\ Missing(result.val, "destination_id")) =>
        /\ keyboards["picker"] > 0
        /\ field_to_pick =
              IF Missing(result.val, "source_id") THEN "source_id" ELSE "destination_id"

\* A step that called determine_intent, which only a text message and a
\* 'regenerate' press do, and reported that nothing could be parsed.
NullReturned ==
    /\ modelCalls' = modelCalls + 1
    /\ shown' \in {"couldnt_parse", "couldnt_parse_context", "could_not_regenerate"}

\* C36: when determine_intent returns None, for a new message, for
\* 'regenerate' or for additional context, the stored proposal and
\* original_input stay as they were, awaiting_context stays as it was (set,
\* for additional context), and nothing is posted.
C36_NullLeavesSession ==
    [][NullReturned =>
        /\ UNCHANGED <<result, held, original_input, awaiting_context, field_to_pick>>
        /\ UNCHANGED <<ledgerPosts, payload, postResult, response>>
        /\ shown' = "couldnt_parse_context" => awaiting_context']_vars

\* Additional context could not be parsed while a proposal is held: the
\* session still waits for context.
C36_Witness ==
    /\ shown = "couldnt_parse_context"
    /\ held
    /\ result.kind = "proposal"
    /\ original_input # <<>>
    /\ awaiting_context
    /\ ledgerPosts = 0

\* A text message was handled, which only an authorized user's is, and
\* determine_intent resolved it.
ResolvedText ==
    /\ texts' = texts + 1
    /\ ipc' = "returned"
    /\ shown' \notin {"couldnt_parse", "couldnt_parse_context"}

\* An authorized press on 'add_context' while a proposal is held.
ContextAsked == ButtonAddContext /\ effective_user' \in AUTHORIZED_USERS /\ held

\* C37: 'add_context' on a proposal makes the session wait for context; a
\* text that arrives while it waits is resolved as the original input, a
\* comma, a space and the trimmed text, and the proposal resolved from that
\* text replaces the stored one, the combined text becomes original_input and
\* the wait ends; a text that arrives while the session does not wait is
\* resolved alone and replaces the stored proposal.
C37_ContextAppended ==
    /\ [][ContextAsked => awaiting_context' /\ UNCHANGED <<result, original_input>>]_vars
    /\ [][ResolvedText =>
            \E text \in ChatTexts :
                LET resolved == IF awaiting_context
                                THEN original_input \o <<",", " ">> \o strip(text)
                                ELSE strip(text)
                IN  /\ original_input' = resolved
                    /\ result'.kind = "proposal"
                    /\ \E reply \in ChatReplies, object \in ChatObjects :
                          result' \in determine_intent(resolved, reply, object,
                                                       env.today, db)
                    /\ held'
                    /\ ~awaiting_context']_vars

\* A text with added context was resolved: the stored input is the first
\* text, a comma, a space and the second, and the proposal, which the model
\* gave no description, carries it.
C37_Witness ==
    /\ texts = 2
    /\ held
    /\ ~awaiting_context
    /\ \E first \in ChatTexts, second \in ChatTexts :
          original_input = strip(first) \o <<",", " ">> \o strip(second)
    /\ result.val["description"] = Text(original_input)

(***************************************************************************)
(* Properties of the store's rows across runs.                             *)
(***************************************************************************)
\* The ids of a mirrored table, and the transaction ids that have an embedding.
StoredIds(store, k) == {store[k][i].id : i \in DOMAIN store[k]}

EmbeddedIds(store) == {e.transaction_id : e \in store.transaction_embeddings}

\* The ids the ledger has for the entity being synced.
RemoteIds == {Flatten(remote)[i].id : i \in DOMAIN Flatten(remote)}

\* C38: no step of a sync run or of the backfill takes a row out of the
\* store: the ids of accounts, categories, bills, transactions and
\* transaction_embeddings only grow, in what is committed and, while a run
\* writes, in what its connection sees; an entity that is gone from the ledger
\* keeps its row.
C38_RowsNeverDeleted ==
    [][/\ \A k \in Kinds : StoredIds(db, k) \subseteq StoredIds(db', k)
       /\ EmbeddedIds(db) \subseteq EmbeddedIds(db')
       /\ (ProcessItem \/ Commit \/ Backfill) =>
             /\ \A k \in Kinds : StoredIds(conn, k) \subseteq StoredIds(conn', k)
             /\ EmbeddedIds(conn) \subseteq EmbeddedIds(conn')]_vars

\* An entity was deleted on the ledger after the first run, the second run
\* went through every page, and the store still has the entity's row.
C38_Witness ==
    /\ runs = 2
    /\ pc = "idle"
    /\ lastEnd = "empty"
    /\ ~sameRemote
    /\ StoredIds(db, kind) \ RemoteIds # {}

\* The transaction ids the tag rows name.
TaggedIds(store) ==
    {store.transactions_tags[i].transaction_id : i \in DOMAIN store.transactions_tags}

\* Every embedding and every tag row of a store names a transaction the store
\* has, no transaction has two embeddings, and every row that
\* find_similar_transactions reads names a stored transaction.
Resolves(store) ==
    /\ EmbeddedIds(store) \subseteq StoredIds(store, "transactions")
    /\ TaggedIds(store) \subseteq StoredIds(store, "transactions")
    /\ \A e1, e2 \in store.transaction_embeddings :
          e1.transaction_id = e2.transaction_id => e1 = e2
    /\ \A row \in Range(EmbeddingRows(store.transaction_embeddings)) :
          \E t \in Range(store.transactions) : t.id = row.transaction_id

\* C39: in every state, between the page commits of a run and around the
\* backfill included, the committed store and the running connection's view
\* both have every embedding and tag row on an existing transaction and at
\* most one embedding per transaction, so that the id of an exemplar is the
\* id of a transaction row.
C39_ReferencesResolve == Resolves(db) /\ Resolves(conn)

\* A second run is between two page commits, with writes of its own not yet
\* committed, over a store that has tag rows and embeddings.
C39_Witness ==
    /\ runs = 2
    /\ Running
    /\ committed >= 1
    /\ conn # db
    /\ db.transaction_embeddings # {}
    /\ db.transactions_tags # <<>>

====
